---- MODULE Spec2Model ----
(***************************************************************************)
(* Model of the screeps-logger repository.                                 *)
(*                                                                         *)
(* Two loggers live in the repository:                                     *)
(*   - the category-based Logger object of src/screeps-logger.js           *)
(*     (lines 1265-1868): CFG, enabled, shouldNotify, render, emit, the    *)
(*     in-memory ring global.__logRing, getLogs / printLogs;               *)
(*   - the class Logger of src/screeps-logger.js (lines 1-441), whose      *)
(*     history lives in the persistent store Memory._logs.                 *)
(*                                                                         *)
(* JavaScript's undefined / null / absent property is the empty sequence   *)
(* <<>>, a present value v is the one-element sequence <<v>>, wherever a   *)
(* field may hold either.                                                  *)
(***************************************************************************)
EXTENDS Integers, Sequences, FiniteSets, TLC

VARIABLES
    CFG,                \* category Logger: {level, enabledCats}
    logRing,            \* global.__logRing: {head, size, buf}
    formattedTimeTick,  \* memo key of getFormattedTime
    formattedTime,      \* memo text of getFormattedTime
    gameTime,           \* Game.time, the host's tick counter
    now,                \* Date.now(), the host's wall clock (ms)
    console,            \* lines written to the console by the most recent call
    notified,           \* every Game.notify(text, interval) call so far, in order
    pushed,             \* history: every entry handed to pushRing so far, in order
    result,             \* value returned by the most recent getLogs call
    last,               \* the most recent API call and its arguments
    Memory,             \* Memory._logs, the persistent store of the class Logger
    loggers,            \* the constructed class Logger instances
    clsTimeTick,        \* formattedTimeTick as the class Logger's module sets it
    clsTime,            \* formattedTime as the class Logger's module sets it
    invoked,            \* times the most recent call invoked its message producer
    raised,             \* whether the most recent call ended by throwing
    hung,               \* whether the most recent call never returned
    logged,             \* history: number of log calls that passed both gates
    stored              \* history: the entries stored under each name, in
                        \* order, since the name's history was last removed

\* state of the category Logger's module
catVars == <<CFG, logRing, formattedTimeTick, formattedTime, pushed, result>>

\* state of the class Logger's module
clsVars == <<Memory, loggers, clsTimeTick, clsTime, invoked, raised, hung, logged,
            stored>>

vars == <<CFG, logRing, formattedTimeTick, formattedTime, gameTime, now, console,
          notified, pushed, result, last, Memory, loggers, clsTimeTick, clsTime,
          invoked, raised, hung, logged, stored>>

----------------------------------------------------------------------------
(* Bounds of the model *)

\* capacity of global.__logRing (MAX_LOG_NUM in the source, scaled down)
RingSize == 3

\* most entries handed to pushRing in one behaviour of SpecRing
MaxPushes == 4

\* most entries that pass the filter in one behaviour of Spec
MaxEmits == 1

\* most log calls of the class Logger that pass both gates in one behaviour
MaxLogs == 1

\* most notify-worthy events in one behaviour of SpecThrottle
MaxNotes == 2

\* the limit option the class Logger instances are constructed with
ClassLimit == 2

\* most log calls that pass both gates in one behaviour of SpecHistory
MaxStores == 3

\* most moves of the tick counter in one behaviour
MaxTick == 2

\* most entries that pass the filter in one behaviour of SpecRender, of
\* SpecRestart, of SpecListing and of SpecTime
MaxRenders == 2

\* most moves of the wall clock, each by one minute, in one behaviour
MaxClock == 2

----------------------------------------------------------------------------
(* Program constants *)

NOTIFY_INTERVAL == 60

TIME_OFFSET == 540

MsPerMinute == 60000

LOG_LEVEL == [ERROR |-> 0, WARN |-> 1, INFO |-> 2, DEBUG |-> 3, TRACE |-> 4]

LevelNames == {"ERROR", "WARN", "INFO", "DEBUG", "TRACE"}

Levels == {LOG_LEVEL[n] : n \in LevelNames}

LOG_CAT == [DEFENSE |-> 10, OFFENSE |-> 11]

LEVEL_NAME == <<"ERROR", "WARN ", "INFO ", "DEBUG", "TRACE">>

LEVEL_COLORS == <<"#FF6B6B", "#FFD166", "#4DA3FF", "#6BCF8E", "#9E9E9E">>

Undefined == <<>>

Null == <<>>

Some(v) == <<v>>

\* the categories a caller passes: two of LOG_CAT, or none at all
Cats == {Some(LOG_CAT.DEFENSE), Some(LOG_CAT.OFFENSE)}

CatsOrNone == Cats \cup {Undefined}

----------------------------------------------------------------------------
(* Pure helpers of the category Logger *)

\* CAT_NAME = buildTextDict(LOG_CAT): value -> key, undefined for other values
CAT_NAME(c) ==
    IF c = Some(LOG_CAT.DEFENSE) THEN "DEFENSE"
    ELSE IF c = Some(LOG_CAT.OFFENSE) THEN "OFFENSE"
    ELSE "undefined"

\* LEVEL_NAME[l], "undefined" when l is no index of the table
LevelLabel(l) ==
    IF l \in 0..(Len(LEVEL_NAME) - 1) THEN LEVEL_NAME[l + 1] ELSE "undefined"

\* LEVEL_COLORS[l], "undefined" when l is no key of the table
LevelColor(l) ==
    IF l \in 0..(Len(LEVEL_COLORS) - 1) THEN LEVEL_COLORS[l + 1] ELSE "undefined"

\* the YYYY.MM.DD. HH:MM text of a timestamp: the minute it falls in,
\* shifted by TIME_OFFSET minutes
FormatDate(ts) == (ts \div MsPerMinute) + TIME_OFFSET

getFormattedTimeMutStale(memoTick, memoTime, time, ts) ==
    IF memoTick # Undefined
    THEN [tick |-> memoTick, text |-> memoTime]
    ELSE [tick |-> Some(time), text |-> Some(FormatDate(ts))]

\* getFormattedTime(timestamp): the memo after the call; its text is the
\* value returned
getFormattedTime(memoTick, memoTime, time, ts) ==
    IF memoTick = Some(time)
    THEN [tick |-> memoTick, text |-> memoTime]
    ELSE [tick |-> Some(time), text |-> Some(FormatDate(ts))]

getRoomLink(roomName) == <<"room", roomName>>

getReplayLink(roomName, tick) == <<"history", roomName, tick>>

\* the coloredLine render(entry) builds, given the time text
renderLine(entry, time) ==
    [ time  |-> time,
      tick  |-> IF entry.r # Undefined
                THEN getReplayLink(entry.r[1], entry.t) ELSE <<entry.t>>,
      level |-> LevelLabel(entry.l),
      cat   |-> CAT_NAME(entry.c),
      room  |-> IF entry.r # Undefined THEN getRoomLink(entry.r[1]) ELSE <<"--">>,
      msg   |-> entry.m,
      data  |-> entry.d,
      style |-> IF "context" \in entry.f
                THEN "color:#888;font-style:italic"
                ELSE LevelColor(entry.l) ]

renderMutOldMemo(memoTick, memoTime, time, entry) ==
    LET memo == getFormattedTime(memoTick, memoTime, time, entry.ts)
    IN [ tick |-> memo.tick, text |-> memo.text,
         line |-> renderLine(entry, IF memoTime # Undefined
                                    THEN memoTime[1] ELSE memo.text[1]) ]

\* render(entry) at tick time with the memo given: the memo after the call
\* and the coloredLine it prints and returns
render(memoTick, memoTime, time, entry) ==
    LET memo == getFormattedTime(memoTick, memoTime, time, entry.ts)
    IN [ tick |-> memo.tick, text |-> memo.text,
         line |-> renderLine(entry, memo.text[1]) ]

\* logs.forEach((entry) => render(entry)): the memo after the calls and the
\* lines printed, in order
RECURSIVE renderEach(_, _, _, _, _)
renderEach(memoTick, memoTime, time, entries, lines) ==
    IF entries = <<>>
    THEN [tick |-> memoTick, text |-> memoTime, lines |-> lines]
    ELSE LET r == render(memoTick, memoTime, time, Head(entries))
         IN renderEach(r.tick, r.text, time, Tail(entries),
                       Append(lines, r.line))

enabledMutNoLevel(cfg, level, cat) ==
    IF cfg.enabledCats # Null /\ cat \notin cfg.enabledCats[1] THEN FALSE
    ELSE TRUE

enabledMutNoCats(cfg, level, cat) ==
    IF level > cfg.level THEN FALSE
    ELSE TRUE

enabledMutStrict(cfg, level, cat) ==
    IF level >= cfg.level THEN FALSE
    ELSE IF cfg.enabledCats # Null /\ cat \notin cfg.enabledCats[1] THEN FALSE
    ELSE TRUE

\* enabled(level, cat), reading the configuration cfg
enabled(cfg, level, cat) ==
    IF level > cfg.level THEN FALSE
    ELSE IF cfg.enabledCats # Null /\ cat \notin cfg.enabledCats[1] THEN FALSE
    ELSE TRUE

shouldNotifyMutErrorOnly(level, msg) == level <= LOG_LEVEL.ERROR

shouldNotify(level, msg) == level <= LOG_LEVEL.WARN

notifyIntervalMutAlways(level, flags) == NOTIFY_INTERVAL

\* level === LOG_LEVEL.ERROR || (flags && flags.notifyNow) ? 0 : NOTIFY_INTERVAL
notifyInterval(level, flags) ==
    IF level = LOG_LEVEL.ERROR \/ "notifyNow" \in flags
    THEN 0 ELSE NOTIFY_INTERVAL

pushRingMutNoWrap(r, entry) ==
    [r EXCEPT !.buf[r.head] = Some(entry),
              !.head = IF r.head + 1 < r.size THEN r.head + 1 ELSE r.head]

pushRing(r, entry) ==
    [r EXCEPT !.buf[r.head] = Some(entry), !.head = (r.head + 1) % r.size]

\* the predicates a caller hands to getLogs / printLogs
Predicates == {"none", "errorsOnly", "warnOrWorse"}

ApplyPredicate(predicate, entry) ==
    CASE predicate = "errorsOnly"  -> entry.l = LOG_LEVEL.ERROR
      [] predicate = "warnOrWorse" -> entry.l <= LOG_LEVEL.WARN
      [] OTHER -> TRUE

RECURSIVE getLogsLoop(_, _, _, _)
getLogsLoop(r, predicate, i, acc) ==
    IF i >= r.size THEN acc
    ELSE LET index == (r.head + i) % r.size
             entry == r.buf[index]
         IN IF entry = Undefined
               \/ (predicate # "none" /\ ~ApplyPredicate(predicate, entry[1]))
            THEN getLogsLoop(r, predicate, i + 1, acc)
            ELSE getLogsLoop(r, predicate, i + 1, Append(acc, entry[1]))

getLogsMutFromZero(r, predicate) ==
    getLogsLoop([r EXCEPT !.head = 0], predicate, 0, <<>>)

\* Logger.getLogs(predicate)
getLogs(r, predicate) == getLogsLoop(r, predicate, 0, <<>>)


----------------------------------------------------------------------------
(* Pure helpers of the class Logger *)

MAX_LOG_NUM == 100

LOG_LEVELS ==
    [FATAL |-> 0, ERROR |-> 1, WARN |-> 2, INFO |-> 3, DEBUG |-> 4, TRACE |-> 5]

DEFAULT_LOG_LEVEL == LOG_LEVELS.INFO

LEVEL_NAMES == <<"FATAL", "ERROR", "WARN", "INFO", "DEBUG", "TRACE">>

\* the logger names in use, and the keys of Memory._logs
Names == {"a", "b"}

StreamKey == "_stream"

Keys == Names \cup {StreamKey}

\* a value of Memory._logs[key]: the object {} with its index and logs
\* properties; an array (the stream allow-list) also has the names it holds
EmptyObj == [names |-> Undefined, index |-> Undefined, logs |-> Undefined]

ArrayOf(names) == [names |-> Some(names), index |-> Undefined, logs |-> Undefined]

\* Memory._logs = {}
EmptyLogs == [k \in Keys |-> Undefined]

\* a message is a string, or a zero-argument producer of a string
Lit(text) == [fn |-> FALSE, text |-> text, throws |-> FALSE]

Producer(text) == [fn |-> TRUE, text |-> text, throws |-> FALSE]

\* a producer whose body throws
ThrowingProducer(text) == [fn |-> TRUE, text |-> text, throws |-> TRUE]

\* x || d for an optional number x: d when x is undefined or 0
OrDefault(x, d) == IF x = Undefined \/ x[1] = 0 THEN d ELSE x[1]

NoOptions ==
    [level |-> Undefined, limit |-> Undefined, format |-> Undefined,
     notifyCallback |-> Undefined, memoryCallback |-> Undefined]

\* new Logger(name, options)
NewLogger(name, options) ==
    [ name  |-> name,
      level |-> OrDefault(options.level, DEFAULT_LOG_LEVEL),
      limit |-> OrDefault(options.limit, MAX_LOG_NUM),
      format |-> IF options.format = Undefined
                 THEN "defaultFormat" ELSE options.format[1],
      notifyCallback |-> IF options.notifyCallback = Undefined
                         THEN "defaultNotifyCallback"
                         ELSE options.notifyCallback[1],
      memoryCallback |-> IF options.memoryCallback = Undefined
                         THEN "defaultMemoryCallback"
                         ELSE options.memoryCallback[1] ]

defaultMemoryCallbackMutWarn(entry) == entry.level <= LOG_LEVELS.WARN

defaultMemoryCallback(entry) == entry.level <= LOG_LEVELS.INFO

defaultNotifyCallbackMutError(entry) == entry.level <= LOG_LEVELS.ERROR

defaultNotifyCallback(entry) == entry.level <= LOG_LEVELS.WARN

\* this.notifyCallback(entry); "fatalOnly" is a callback a caller supplies
notifyCallback(L, entry) ==
    IF L.notifyCallback = "defaultNotifyCallback"
    THEN defaultNotifyCallback(entry)
    ELSE entry.level <= LOG_LEVELS.FATAL

\* this.memoryCallback(entry); "storeAll" is a callback a caller supplies
memoryCallback(L, entry) ==
    IF L.memoryCallback = "defaultMemoryCallback"
    THEN defaultMemoryCallback(entry)
    ELSE TRUE

\* Logger.getStreamTarget(): Memory._logs after the call (created when
\* absent); the value returned is its _stream property
getStreamTarget(M) == IF M = Undefined THEN EmptyLogs ELSE M[1]

streamBlocksMutNever(target, name) == FALSE

\* Logger.getStreamTarget() && !Logger.getStreamTarget().includes(name),
\* for a target that is an array
streamBlocks(target, name) ==
    target # Undefined /\ name \notin target[1].names[1]

levelBlocksMutNever(L, e) == e = Undefined \/ e[1].level = Undefined

\* !entry || entry.level === undefined || entry.level > this.getLevel()
levelBlocks(L, e) ==
    e = Undefined \/ e[1].level = Undefined \/ e[1].level[1] > L.level

resolveMessageMutKeep(message) == message

\* entry.message = entry.message() for a producer
resolveMessage(message) ==
    IF message.fn THEN Lit(message.text) ELSE message

\* `${message}`: the text, or the source text of an unresolved producer
MessageText(message) ==
    IF message.fn THEN <<"function", message.text>> ELSE <<message.text>>

\* LEVEL_NAMES[level] is undefined: levelName.padEnd raises a TypeError
formatRaises(L, entry) ==
    L.format = "defaultFormat" /\ entry.level \notin 0..(Len(LEVEL_NAMES) - 1)

\* this.format(entry): Logger.defaultFormat(name, entry), or the caller's
\* format function "customFormat" of the examples
format(L, entry) ==
    IF L.format = "defaultFormat"
    THEN [ time  |-> FormatDate(entry.timestamp),
           tick  |-> entry.tick,
           level |-> LEVEL_NAMES[entry.level + 1],
           name  |-> L.name,
           message |-> MessageText(entry.message),
           room  |-> IF entry.roomName # Undefined
                     THEN <<getRoomLink(entry.roomName[1]),
                            getReplayLink(entry.roomName[1], entry.tick)>>
                     ELSE <<>>,
           color |-> LEVEL_NAMES[entry.level + 1] ]
    ELSE [ tick |-> entry.tick, name |-> L.name,
           message |-> MessageText(entry.message) ]

\* the getter this.memory: Memory._logs[name] = Memory._logs[name] || {}
memoryOf(map, name) ==
    IF map[name] = Undefined THEN [map EXCEPT ![name] = Some(EmptyObj)] ELSE map

\* the getter this.logs on the record rec: rec.logs || {}
logsOf(rec) == IF rec.logs = Undefined THEN <<>> ELSE rec.logs[1]

storeMutNoWrap(map, L, entry) ==
    LET m1   == memoryOf(map, L.name)
        rec  == m1[L.name][1]
        idx  == IF rec.index = Undefined THEN 0 ELSE rec.index[1]
        logs == logsOf(rec)
    IN [m1 EXCEPT ![L.name] = Some([rec EXCEPT
            !.logs = Some([k \in DOMAIN logs \cup {idx} |->
                              IF k = idx THEN entry ELSE logs[k]]),
            !.index = Some(idx + 1)])]

\* the storing lines of log: index defaults to 0, the entry is written at
\* index, index advances modulo the limit
store(map, L, entry) ==
    LET m1   == memoryOf(map, L.name)
        rec  == m1[L.name][1]
        idx  == IF rec.index = Undefined THEN 0 ELSE rec.index[1]
        logs == logsOf(rec)
    IN [m1 EXCEPT ![L.name] = Some([rec EXCEPT
            !.logs = Some([k \in DOMAIN logs \cup {idx} |->
                              IF k = idx THEN entry ELSE logs[k]]),
            !.index = Some((idx + 1) % L.limit)])]

DroppedMutInvokes(map) ==
    [Memory |-> Some(map), console |-> <<>>, notes |-> <<>>, invoked |-> 1,
     raised |-> FALSE, passed |-> FALSE, formatted |-> Undefined,
     stored |-> <<>>]

\* the outcome of a call that returns at one of the two gates
Dropped(map) ==
    [Memory |-> Some(map), console |-> <<>>, notes |-> <<>>, invoked |-> 0,
     raised |-> FALSE, passed |-> FALSE, formatted |-> Undefined,
     stored |-> <<>>]

\* log(entry) on the instance L, in the store M at tick time and wall clock
\* clock: the store after the call, what the call printed and submitted to
\* the notifier, how often it invoked the producer, whether it raised
logOutcome(M, L, e, time, clock) ==
    LET map    == getStreamTarget(M)
        target == map[StreamKey]
    IN IF target # Undefined /\ target[1].names = Undefined
       THEN [Dropped(map) EXCEPT !.raised = TRUE]
       ELSE IF streamBlocks(target, L.name) THEN Dropped(map)
       ELSE IF levelBlocks(L, e) THEN Dropped(map)
       ELSE IF e[1].message.fn /\ e[1].message.throws
       THEN [Dropped(map) EXCEPT !.invoked = 1, !.raised = TRUE, !.passed = TRUE]
       ELSE
       LET e1 == [ level     |-> e[1].level[1],
                   message   |-> resolveMessage(e[1].message),
                   timestamp |-> clock,
                   tick      |-> OrDefault(e[1].tick, time),
                   roomName  |-> e[1].roomName ]
       IN IF formatRaises(L, e1)
          THEN [Dropped(map) EXCEPT
                   !.invoked = IF e[1].message.fn THEN 1 ELSE 0,
                   !.raised = TRUE, !.passed = TRUE]
          ELSE
          LET formattedLog == format(L, e1)
              notify == IF e[1].notify = Undefined
                        THEN notifyCallback(L, e1) ELSE e[1].notify[1]
              memory == IF e[1].memory = Undefined
                        THEN memoryCallback(L, e1) ELSE e[1].memory[1]
              e2 == [ level |-> e1.level, message |-> e1.message,
                      timestamp |-> e1.timestamp, tick |-> e1.tick,
                      roomName |-> e1.roomName,
                      notify |-> notify, memory |-> memory ]
          IN [ Memory  |-> Some(IF memory THEN store(map, L, e2) ELSE map),
               console |-> <<formattedLog>>,
               notes   |-> IF notify
                           THEN <<[text |-> formattedLog,
                                   interval |-> NOTIFY_INTERVAL,
                                   tick |-> time]>>
                           ELSE <<>>,
               invoked |-> IF e[1].message.fn THEN 1 ELSE 0,
               raised  |-> FALSE,
               passed  |-> TRUE,
               formatted |-> Some(e1.timestamp),
               stored  |-> IF memory THEN <<e2>> ELSE <<>> ]

\* the entries print() visits on the record rec with limit limit, from slot
\* index on, until the slot index comes back to currentIndex
RECURSIVE printLoop(_, _, _, _, _)
printLoop(rec, limit, index, currentIndex, acc) ==
    LET logs  == logsOf(rec)
        next  == (index + 1) % limit
        acc1  == IF index \in DOMAIN logs THEN Append(acc, logs[index]) ELSE acc
    IN IF next = currentIndex THEN acc1
       ELSE printLoop(rec, limit, next, currentIndex, acc1)

\* the text print() hands to console.log: "#" + num + text + "<br>" for
\* each entry visited
printText(L, entries) ==
    [n \in 1..Len(entries) |-> [num |-> n, text |-> format(L, entries[n])]]

----------------------------------------------------------------------------
(* Initial state: the modules have just been loaded, the store is empty,   *)
(* and the host code has constructed its class Logger instances            *)

Instances == {"A", "B"}

\* an instance the host constructs with the name of the allow-list's key:
\* new Logger("_stream", ...)
Reserved == "S"

\* CFG as the module's load leaves it
InitialCFG == [level |-> LOG_LEVEL.INFO, enabledCats |-> Null]

\* global.__logRing as the module's load leaves it
InitialRing ==
    [head |-> 0, size |-> RingSize,
     buf |-> [i \in 0..(RingSize - 1) |-> Undefined]]

\* the class Logger instances the host code constructs when it is loaded
HostLoggers ==
    [i \in Instances \cup {Reserved} |->
          IF i = "A"
          THEN NewLogger("a", [NoOptions EXCEPT !.limit = Some(ClassLimit)])
          ELSE IF i = "B"
          THEN NewLogger("b", [NoOptions EXCEPT !.limit = Some(ClassLimit),
                                  !.notifyCallback = Some("fatalOnly")])
          ELSE NewLogger(StreamKey,
                         [NoOptions EXCEPT !.limit = Some(ClassLimit)])]

Init ==
    /\ CFG = InitialCFG
    /\ logRing = InitialRing
    /\ formattedTimeTick = Undefined
    /\ formattedTime = Undefined
    /\ gameTime = 1
    /\ now = 0
    /\ console = <<>>
    /\ notified = <<>>
    /\ pushed = <<>>
    /\ result = <<>>
    /\ last = <<"load">>
    /\ Memory = Undefined
    /\ loggers = HostLoggers
    /\ clsTimeTick = Undefined
    /\ clsTime = Undefined
    /\ invoked = 0
    /\ raised = FALSE
    /\ hung = FALSE
    /\ logged = 0
    /\ stored = [k \in Keys |-> <<>>]

\* a call on the category Logger leaves the class Logger's module alone
ClassIdle ==
    /\ invoked' = 0
    /\ raised' = FALSE
    /\ hung' = FALSE
    /\ UNCHANGED <<Memory, loggers, clsTimeTick, clsTime, logged, stored>>

\* a call on the class Logger leaves the category Logger's module alone
CategoryIdle ==
    UNCHANGED <<CFG, logRing, formattedTimeTick, formattedTime, pushed>>

----------------------------------------------------------------------------
(* Operations of the category Logger *)

\* emit(level, cat, roomName, msg, data, flags); flags is the set of the
\* flag names that are set
emit(level, cat, roomName, msg, data, flags) ==
    IF ~enabled(CFG, level, cat)
    THEN /\ console' = <<>>
         /\ UNCHANGED <<CFG, logRing, formattedTimeTick, formattedTime,
                        notified, pushed>>
    ELSE LET entry == [t |-> gameTime, ts |-> now, l |-> level, c |-> cat,
                       r |-> roomName, m |-> msg, d |-> data, f |-> flags]
             memo  == render(formattedTimeTick, formattedTime, gameTime, entry)
             line  == memo.line
         IN /\ formattedTimeTick' = memo.tick
            /\ formattedTime' = memo.text
            /\ console' = <<line>>
            /\ logRing' = pushRing(logRing, entry)
            /\ pushed' = Append(pushed, entry)
            /\ IF shouldNotify(level, msg) \/ "notify" \in flags
               THEN notified' = Append(notified,
                        [text |-> line,
                         interval |-> notifyInterval(level, flags),
                         tick |-> gameTime])
               ELSE UNCHANGED notified
            /\ UNCHANGED CFG

\* what every leveled method of the category Logger leaves alone
EmitFrame ==
    /\ result' = <<>>
    /\ ClassIdle
    /\ UNCHANGED <<gameTime, now>>

Logger_error(cat, roomName, msg, data, flags) ==
    /\ emit(LOG_LEVEL.ERROR, cat, roomName, msg, data, flags)
    /\ last' = <<"Logger.error", LOG_LEVEL.ERROR, cat, flags>>
    /\ EmitFrame

Logger_warn(cat, roomName, msg, data, flags) ==
    /\ emit(LOG_LEVEL.WARN, cat, roomName, msg, data, flags)
    /\ last' = <<"Logger.warn", LOG_LEVEL.WARN, cat, flags>>
    /\ EmitFrame

Logger_info(cat, roomName, msg, data, flags) ==
    /\ emit(LOG_LEVEL.INFO, cat, roomName, msg, data, flags)
    /\ last' = <<"Logger.info", LOG_LEVEL.INFO, cat, flags>>
    /\ EmitFrame

Logger_debug(cat, roomName, msg, data, flags) ==
    /\ emit(LOG_LEVEL.DEBUG, cat, roomName, msg, data, flags)
    /\ last' = <<"Logger.debug", LOG_LEVEL.DEBUG, cat, flags>>
    /\ EmitFrame

Logger_trace(cat, roomName, msg, data, flags) ==
    /\ emit(LOG_LEVEL.TRACE, cat, roomName, msg, data, flags)
    /\ last' = <<"Logger.trace", LOG_LEVEL.TRACE, cat, flags>>
    /\ EmitFrame

\* context sets flags.context and emits at WARN
Logger_context(cat, roomName, msg, data, flags) ==
    /\ emit(LOG_LEVEL.WARN, cat, roomName, msg, data, flags \cup {"context"})
    /\ last' = <<"Logger.context", LOG_LEVEL.WARN, cat, flags>>
    /\ EmitFrame

\* what the configuration methods and getLogs leave alone
ConfigFrame ==
    /\ console' = <<>>
    /\ ClassIdle
    /\ UNCHANGED <<logRing, formattedTimeTick, formattedTime, gameTime, now,
                   notified, pushed>>

Logger_setLevel(name) ==
    /\ CFG' = [CFG EXCEPT !.level = LOG_LEVEL[name]]
    /\ result' = <<>>
    /\ last' = <<"Logger.setLevel", name>>
    /\ ConfigFrame

Logger_enableCategory(cat) ==
    /\ CFG' = [CFG EXCEPT !.enabledCats =
                  IF CFG.enabledCats = Null
                  THEN Some({cat}) ELSE Some(CFG.enabledCats[1] \cup {cat})]
    /\ result' = <<>>
    /\ last' = <<"Logger.enableCategory", cat>>
    /\ ConfigFrame

Logger_clearCategory ==
    /\ CFG' = [CFG EXCEPT !.enabledCats = Null]
    /\ result' = <<>>
    /\ last' = <<"Logger.clearCategory">>
    /\ ConfigFrame

Logger_getLogs(predicate) ==
    /\ result' = getLogs(logRing, predicate)
    /\ last' = <<"Logger.getLogs", predicate>>
    /\ UNCHANGED CFG
    /\ ConfigFrame

\* Logger.printLogs(predicate): every entry getLogs returns is rendered
Logger_printLogs(predicate) ==
    LET out == renderEach(formattedTimeTick, formattedTime, gameTime,
                          getLogs(logRing, predicate), <<>>)
    IN /\ console' = out.lines
       /\ formattedTimeTick' = out.tick
       /\ formattedTime' = out.text
       /\ result' = <<>>
       /\ last' = <<"Logger.printLogs", predicate>>
       /\ ClassIdle
       /\ UNCHANGED <<CFG, logRing, gameTime, now, notified, pushed>>

\* the wall clock moves on by one minute within the tick
Clock ==
    /\ now + MsPerMinute <= MaxClock * MsPerMinute
    /\ now' = now + MsPerMinute
    /\ UNCHANGED <<CFG, logRing, formattedTimeTick, formattedTime, gameTime,
                   console, notified, pushed, result, last, clsVars>>

\* the ticks the host reaches in at most MaxTick moves, each by one tick or
\* by one notification interval
TickTimes ==
    UNION {{1 + a + NOTIFY_INTERVAL * b : b \in 0..(MaxTick - a)} :
              a \in 0..MaxTick}

\* the host moves on by d ticks in which nothing is logged
Tick(d) ==
    /\ gameTime + d \in TickTimes
    /\ gameTime' = gameTime + d
    /\ UNCHANGED <<CFG, logRing, formattedTimeTick, formattedTime, now,
                   console, notified, pushed, result, last, clsVars>>

----------------------------------------------------------------------------
(* Operations of the class Logger *)

\* log(entry) on instance i, called with the store M; e is the entry, or
\* Undefined for no entry
logOn(M, i, e) ==
    LET o == logOutcome(M, loggers[i], e, gameTime, now)
    IN /\ Memory' = o.Memory
       /\ console' = o.console
       /\ notified' = notified \o o.notes
       /\ invoked' = o.invoked
       /\ raised' = o.raised
       /\ hung' = FALSE
       /\ logged' = IF o.passed THEN logged + 1 ELSE logged
       /\ stored' = [stored EXCEPT ![loggers[i].name] = @ \o o.stored]
       /\ clsTimeTick' = IF o.formatted # Undefined
                         THEN Some(gameTime) ELSE clsTimeTick
       /\ clsTime' = IF o.formatted # Undefined
                     THEN Some(FormatDate(o.formatted[1])) ELSE clsTime
       /\ result' = <<>>
       /\ CategoryIdle
       /\ UNCHANGED <<loggers, gameTime, now>>

\* log(entry) on instance i
log(i, e) == logOn(Memory, i, e)

NoLogOptions ==
    [tick |-> Undefined, roomName |-> Undefined, notify |-> Undefined,
     memory |-> Undefined]

\* { level, message, ...options }
EntryOf(level, message, options) ==
    Some([level |-> Some(level), message |-> message, tick |-> options.tick,
          roomName |-> options.roomName, notify |-> options.notify,
          memory |-> options.memory])

\* an entry object without level property
NoLevelEntry(message) ==
    Some([level |-> Undefined, message |-> message, tick |-> Undefined,
          roomName |-> Undefined, notify |-> Undefined, memory |-> Undefined])

\* the host calls log(entry) itself; e is Undefined for log()
logCall(i, e) ==
    /\ log(i, e)
    /\ last' = <<"log", i, e>>

fatal(i, message, options) ==
    /\ log(i, EntryOf(LOG_LEVELS.FATAL, message, options))
    /\ last' = <<"fatal", i, LOG_LEVELS.FATAL, message, options>>

error(i, message, options) ==
    /\ log(i, EntryOf(LOG_LEVELS.ERROR, message, options))
    /\ last' = <<"error", i, LOG_LEVELS.ERROR, message, options>>

warn(i, message, options) ==
    /\ log(i, EntryOf(LOG_LEVELS.WARN, message, options))
    /\ last' = <<"warn", i, LOG_LEVELS.WARN, message, options>>

info(i, message, options) ==
    /\ log(i, EntryOf(LOG_LEVELS.INFO, message, options))
    /\ last' = <<"info", i, LOG_LEVELS.INFO, message, options>>

debug(i, message, options) ==
    /\ log(i, EntryOf(LOG_LEVELS.DEBUG, message, options))
    /\ last' = <<"debug", i, LOG_LEVELS.DEBUG, message, options>>

trace(i, message, options) ==
    /\ log(i, EntryOf(LOG_LEVELS.TRACE, message, options))
    /\ last' = <<"trace", i, LOG_LEVELS.TRACE, message, options>>

\* what the methods of the class Logger other than log leave alone
ClassFrame ==
    /\ invoked' = 0
    /\ result' = <<>>
    /\ CategoryIdle
    /\ UNCHANGED <<gameTime, now, notified, logged>>

print(i) ==
    LET L   == loggers[i]
        m1  == memoryOf(getStreamTarget(Memory), L.name)
        rec == m1[L.name][1]
    IN /\ last' = <<"print", i>>
       /\ ClassFrame
       /\ UNCHANGED <<loggers, stored>>
       /\ IF rec.index = Undefined
          THEN /\ Memory' = Some(m1)
               /\ console' = <<>>
               /\ raised' = FALSE
               /\ hung' = FALSE
               /\ UNCHANGED <<clsTimeTick, clsTime>>
          ELSE LET m2 == [m1 EXCEPT ![L.name] =
                             Some([rec EXCEPT !.logs = Some(logsOf(rec))])]
               IN /\ Memory' = Some(m2)
                  /\ IF rec.index[1] >= L.limit
                     THEN /\ hung' = TRUE
                          /\ raised' = FALSE
                          /\ console' = <<>>
                          /\ UNCHANGED <<clsTimeTick, clsTime>>
                     ELSE LET entries == printLoop(rec, L.limit, rec.index[1],
                                                   rec.index[1], <<>>)
                          IN /\ hung' = FALSE
                             /\ IF \E n \in 1..Len(entries) :
                                      formatRaises(L, entries[n])
                                THEN /\ raised' = TRUE
                                     /\ console' = <<>>
                                     /\ UNCHANGED <<clsTimeTick, clsTime>>
                                ELSE /\ raised' = FALSE
                                     /\ console' = <<printText(L, entries)>>
                                     /\ IF entries = <<>>
                                        THEN UNCHANGED <<clsTimeTick, clsTime>>
                                        ELSE /\ clsTimeTick' = Some(gameTime)
                                             /\ clsTime' = Some(FormatDate(
                                                  entries[Len(entries)].timestamp))

\* print() of src/unnamed/part_000, the variant without the test for an
\* undefined cursor; it returns the text instead of printing it. The
\* numbered properties this variant keeps on the record itself are the logs
\* of the record here. With the cursor undefined, index becomes NaN after
\* the first pass and never equals currentIndex: the loop does not end.
print_part000(i) ==
    LET L   == loggers[i]
        m1  == memoryOf(getStreamTarget(Memory), L.name)
        rec == m1[L.name][1]
    IN /\ last' = <<"print_part000", i>>
       /\ invoked' = 0
       /\ console' = <<>>
       /\ CategoryIdle
       /\ Memory' = Some(m1)
       /\ UNCHANGED <<gameTime, now, notified, logged, loggers, stored,
                      clsTimeTick, clsTime>>
       /\ IF rec.index = Undefined \/ rec.index[1] >= L.limit
          THEN /\ hung' = TRUE
               /\ raised' = FALSE
               /\ result' = <<>>
          ELSE LET entries == printLoop(rec, L.limit, rec.index[1],
                                        rec.index[1], <<>>)
               IN /\ hung' = FALSE
                  /\ raised' = \E n \in 1..Len(entries) :
                                   formatRaises(L, entries[n])
                  /\ result' = IF raised' THEN <<>>
                               ELSE <<printText(L, entries)>>

clearMutAll(i) ==
    /\ Memory' = IF Memory = Undefined THEN Memory ELSE Some(EmptyLogs)
    /\ console' = <<>>
    /\ raised' = FALSE
    /\ hung' = FALSE
    /\ last' = <<"clear", i>>
    /\ stored' = [stored EXCEPT ![loggers[i].name] = <<>>]
    /\ ClassFrame
    /\ UNCHANGED <<loggers, clsTimeTick, clsTime>>

clearAllMutKeep ==
    /\ Memory' = IF Memory = Undefined THEN Memory
                 ELSE Some([Memory[1] EXCEPT ![StreamKey] = Undefined])
    /\ console' = <<>>
    /\ raised' = FALSE
    /\ hung' = FALSE
    /\ last' = <<"clearAll">>
    /\ stored' = [k \in Keys |-> IF k # "._stream" THEN <<>> ELSE stored[k]]
    /\ ClassFrame
    /\ UNCHANGED <<loggers, clsTimeTick, clsTime>>

\* clear(): delete Memory._logs[this.name]
clear(i) ==
    /\ Memory' = IF Memory = Undefined THEN Memory
                 ELSE Some([Memory[1] EXCEPT ![loggers[i].name] = Undefined])
    /\ console' = <<>>
    /\ raised' = FALSE
    /\ hung' = FALSE
    /\ last' = <<"clear", i>>
    /\ stored' = [stored EXCEPT ![loggers[i].name] = <<>>]
    /\ ClassFrame
    /\ UNCHANGED <<loggers, clsTimeTick, clsTime>>

\* Logger.clearAll(): every key other than "._stream" is deleted
clearAll ==
    /\ Memory' = IF Memory = Undefined THEN Memory
                 ELSE Some([k \in Keys |->
                             IF k # "._stream" THEN Undefined ELSE Memory[1][k]])
    /\ console' = <<>>
    /\ raised' = FALSE
    /\ hung' = FALSE
    /\ last' = <<"clearAll">>
    /\ stored' = [k \in Keys |-> IF k # "._stream" THEN <<>> ELSE stored[k]]
    /\ ClassFrame
    /\ UNCHANGED <<loggers, clsTimeTick, clsTime>>

\* the argument of setStream: a single name, or an array of names
OneName(n) == Some([string |-> TRUE, value |-> n])

NameList(S) == Some([string |-> FALSE, value |-> S])

setStreamMutEmpty(M, names) ==
    LET map == getStreamTarget(M)
    IN IF names = Undefined
       THEN Some([map EXCEPT ![StreamKey] = Undefined])
       ELSE Some([map EXCEPT ![StreamKey] = Some(ArrayOf(
                IF names[1].string THEN {} ELSE names[1].value))])

\* Logger.setStream(names): Memory._logs after the call
setStreamTo(M, names) ==
    LET map == getStreamTarget(M)
    IN IF names = Undefined
       THEN Some([map EXCEPT ![StreamKey] = Undefined])
       ELSE Some([map EXCEPT ![StreamKey] = Some(ArrayOf(
                IF names[1].string THEN {names[1].value} ELSE names[1].value))])

setStream(names) ==
    /\ Memory' = setStreamTo(Memory, names)
    /\ console' = <<>>
    /\ raised' = FALSE
    /\ hung' = FALSE
    /\ last' = <<"setStream", names>>
    /\ ClassFrame
    /\ UNCHANGED <<loggers, clsTimeTick, clsTime, stored>>

\* getLevel(): the value returned is result
getLevel(i) ==
    /\ result' = <<loggers[i].level>>
    /\ console' = <<>>
    /\ invoked' = 0
    /\ raised' = FALSE
    /\ hung' = FALSE
    /\ last' = <<"getLevel", i>>
    /\ CategoryIdle
    /\ UNCHANGED <<gameTime, now, notified, logged, Memory, loggers,
                   clsTimeTick, clsTime, stored>>

\* the host constructs instance i again: new Logger(name, options)
construct(i, options) ==
    /\ loggers' = [loggers EXCEPT ![i] = NewLogger(loggers[i].name, options)]
    /\ console' = <<>>
    /\ raised' = FALSE
    /\ hung' = FALSE
    /\ last' = <<"new", i, options>>
    /\ ClassFrame
    /\ UNCHANGED <<Memory, clsTimeTick, clsTime, stored>>

setLevel(i, level) ==
    /\ loggers' = [loggers EXCEPT ![i].level = level]
    /\ console' = <<>>
    /\ raised' = FALSE
    /\ hung' = FALSE
    /\ last' = <<"setLevel", i, level>>
    /\ ClassFrame
    /\ UNCHANGED <<Memory, clsTimeTick, clsTime, stored>>

----------------------------------------------------------------------------
(* src/example.js: logError *)

\* const errorLogger = new Logger("error"): its part is played by the
\* instance A, whose limit is ClassLimit
errorLogger == "A"

\* the values handed to logError: Error objects with message and stack, and
\* a value that is no Error
Errors ==
    {[isError |-> TRUE, message |-> m, stack |-> st] :
        m \in {"x"}, st \in {"s1", "s2", "s3"}}

NotAnError == [isError |-> FALSE, message |-> "42", stack |-> ""]

ErrorTextMutNoStack(err) == <<err.message>>

\* `${error.message}\nStack: ${error.stack}`
ErrorText(err) == <<err.message, "\nStack: ", err.stack>>

\* Object.values(errorLogger.logs).some((log) => log.message === message)
\* on the record rec
Retains(rec, message) ==
    \E k \in DOMAIN logsOf(rec) : logsOf(rec)[k].message = Lit(message)

\* logError(error, options)
logError(err, options) ==
    IF ~err.isError
    THEN /\ log(errorLogger, EntryOf(LOG_LEVELS.ERROR,
                    Lit(<<"Invalid error object: ", err.message>>), options))
         /\ last' = <<"logError", err, options>>
    ELSE LET L   == loggers[errorLogger]
             m1  == memoryOf(getStreamTarget(Memory), L.name)
             rec == m1[L.name][1]
             m2  == [m1 EXCEPT ![L.name] =
                        Some([rec EXCEPT !.logs = Some(logsOf(rec))])]
         IN /\ last' = <<"logError", err, options>>
            /\ IF Retains(rec, ErrorText(err))
               THEN /\ Memory' = Some(m2)
                    /\ console' = <<>>
                    /\ raised' = FALSE
                    /\ hung' = FALSE
                    /\ ClassFrame
                    /\ UNCHANGED <<loggers, clsTimeTick, clsTime, stored>>
               ELSE logOn(Some(m2), errorLogger,
                          EntryOf(LOG_LEVELS.ERROR, Lit(ErrorText(err)),
                                  options))

----------------------------------------------------------------------------
(* The environment restarts *)

RestartMutWipe ==
    /\ CFG' = InitialCFG
    /\ logRing' = InitialRing
    /\ formattedTimeTick' = Undefined
    /\ formattedTime' = Undefined
    /\ clsTimeTick' = Undefined
    /\ clsTime' = Undefined
    /\ loggers' = HostLoggers
    /\ Memory' = Undefined
    /\ console' = <<>>
    /\ result' = <<>>
    /\ invoked' = 0
    /\ raised' = FALSE
    /\ hung' = FALSE
    /\ last' = <<"restart">>
    /\ UNCHANGED <<gameTime, now, notified, pushed, logged, stored>>

\* the host throws the global scope away and loads the modules again: the
\* variables of both modules are as after the load, the instances are
\* constructed again, the persistent store Memory is kept
Restart ==
    /\ CFG' = InitialCFG
    /\ logRing' = InitialRing
    /\ formattedTimeTick' = Undefined
    /\ formattedTime' = Undefined
    /\ clsTimeTick' = Undefined
    /\ clsTime' = Undefined
    /\ loggers' = HostLoggers
    /\ console' = <<>>
    /\ result' = <<>>
    /\ invoked' = 0
    /\ raised' = FALSE
    /\ hung' = FALSE
    /\ last' = <<"restart">>
    /\ UNCHANGED <<Memory, gameTime, now, notified, pushed, logged, stored>>

----------------------------------------------------------------------------
(* Specifications *)

\* the entries stored under the name in Memory
StoredLogsOf(name) ==
    IF Memory = Undefined \/ Memory[1][name] = Undefined THEN <<>>
    ELSE logsOf(Memory[1][name][1])


\* a call may be made while fewer than max entries have passed the filter,
\* and a call the filter drops may always be made
MayEmit(max, level, cat) == Len(pushed) < max \/ ~enabled(CFG, level, cat)

\* the five leveled methods and context, with their inputs drawn from the
\* given sets
Emits(max, cats, rooms, msgs, flagSets) ==
    \E cat \in cats, roomName \in rooms, msg \in msgs, flags \in flagSets :
        \/ /\ MayEmit(max, LOG_LEVEL.ERROR, cat)
           /\ Logger_error(cat, roomName, msg, Undefined, flags)
        \/ /\ MayEmit(max, LOG_LEVEL.WARN, cat)
           /\ Logger_warn(cat, roomName, msg, Undefined, flags)
        \/ /\ MayEmit(max, LOG_LEVEL.INFO, cat)
           /\ Logger_info(cat, roomName, msg, Undefined, flags)
        \/ /\ MayEmit(max, LOG_LEVEL.DEBUG, cat)
           /\ Logger_debug(cat, roomName, msg, Undefined, flags)
        \/ /\ MayEmit(max, LOG_LEVEL.TRACE, cat)
           /\ Logger_trace(cat, roomName, msg, Undefined, flags)
        \/ /\ MayEmit(max, LOG_LEVEL.WARN, cat)
           /\ Logger_context(cat, roomName, msg, Undefined, flags)

\* SpecRing: the ring under many pushes; one category, no flags
NextRing ==
    \/ Emits(MaxPushes, {Some(LOG_CAT.DEFENSE)}, {Undefined},
             {"WALL_BREACHED"}, {{}})
    \/ \E name \in {"WARN", "TRACE"} : Logger_setLevel(name)
    \/ \E predicate \in Predicates : Logger_getLogs(predicate)

SpecRing == Init /\ [][NextRing]_vars

\* Spec: the filter of the category Logger; every level and category
Next ==
    \/ Emits(MaxEmits, CatsOrNone, {Undefined}, {"WALL_BREACHED"}, {{}})
    \/ \E name \in LevelNames : Logger_setLevel(name)
    \/ \E cat \in Cats : Logger_enableCategory(cat)
    \/ Logger_clearCategory

Spec == Init /\ [][Next]_vars

\* SpecNotify: the notification decision of the category Logger; every
\* level and flag, under both parts of the filter
NextNotify ==
    \/ Emits(MaxEmits, {Undefined, Some(LOG_CAT.DEFENSE)}, {Undefined},
             {"WALL_BREACHED"}, {{}, {"notify"}, {"notifyNow"}})
    \/ \E name \in {"ERROR", "INFO", "TRACE"} : Logger_setLevel(name)
    \/ Logger_enableCategory(Some(LOG_CAT.DEFENSE))
    \/ Logger_clearCategory

SpecNotify == Init /\ [][NextNotify]_vars

\* a log call may be made while fewer than MaxLogs calls have passed both
\* gates, and a call that a gate drops may always be made
MayLog(i, level) ==
    \/ logged < MaxLogs
    \/ ~logOutcome(Memory, loggers[i],
                   EntryOf(level, Lit("m"), NoLogOptions), gameTime, now).passed

\* the six leveled methods of the class Logger, with their inputs drawn from
\* the given sets
Logs(instances, messages, optionSets) ==
    \E i \in instances, message \in messages, options \in optionSets :
        \/ MayLog(i, LOG_LEVELS.FATAL) /\ fatal(i, message, options)
        \/ MayLog(i, LOG_LEVELS.ERROR) /\ error(i, message, options)
        \/ MayLog(i, LOG_LEVELS.WARN) /\ warn(i, message, options)
        \/ MayLog(i, LOG_LEVELS.INFO) /\ info(i, message, options)
        \/ MayLog(i, LOG_LEVELS.DEBUG) /\ debug(i, message, options)
        \/ MayLog(i, LOG_LEVELS.TRACE) /\ trace(i, message, options)

\* SpecClass: the class Logger's gates, message producers and history
NextClass ==
    \/ Logs(Instances, {Lit("m"), Producer("m")}, {NoLogOptions})
    \/ \E i \in Instances : print(i)
    \/ \E names \in {Undefined, OneName("a"), NameList({"a"}), NameList({"b"})} :
          setStream(names)
    \/ \E level \in {LOG_LEVELS.WARN, LOG_LEVELS.TRACE} : setLevel("A", level)

SpecClass == Init /\ [][NextClass]_vars

\* SpecClassNotify: the class Logger's notification decision
NextClassNotify ==
    \/ Logs(Instances, {Lit("m")},
            {[NoLogOptions EXCEPT !.notify = n] :
                n \in {Undefined, Some(TRUE), Some(FALSE)}})
    \/ \E level \in {LOG_LEVELS.WARN, LOG_LEVELS.TRACE} : setLevel("A", level)

SpecClassNotify == Init /\ [][NextClassNotify]_vars

\* SpecThrottle: notify-worthy events of both loggers, close together and
\* one notification interval apart
NextThrottle ==
    \/ /\ Len(pushed) + logged < MaxNotes
       /\ \/ Logger_warn(Some(LOG_CAT.DEFENSE), Undefined, "WALL_BREACHED",
                         Undefined, {})
          \/ Logger_error(Some(LOG_CAT.DEFENSE), Undefined, "WALL_BREACHED",
                          Undefined, {})
          \/ Logger_info(Some(LOG_CAT.DEFENSE), Undefined, "WALL_BREACHED",
                         Undefined, {"notify"})
          \/ Logger_warn(Some(LOG_CAT.DEFENSE), Undefined, "WALL_BREACHED",
                         Undefined, {"notifyNow"})
          \/ Logger_info(Some(LOG_CAT.DEFENSE), Undefined, "WALL_BREACHED",
                         Undefined, {"notify", "notifyNow"})
          \/ Logger_context(Some(LOG_CAT.DEFENSE), Undefined, "WALL_BREACHED",
                            Undefined, {})
          \/ warn("A", Lit("m"), NoLogOptions)
          \/ info("A", Lit("m"), [NoLogOptions EXCEPT !.notify = Some(TRUE)])
    \/ \E d \in {1, NOTIFY_INTERVAL} : Tick(d)

SpecThrottle == Init /\ [][NextThrottle]_vars

\* SpecHistory: the stored history of the class Logger under more stores
\* than slots, print, clear and clearAll
NextHistory ==
    \/ /\ logged < MaxStores
       /\ \E i \in Instances, message \in {Lit("m"), Lit("n")} :
             info(i, message, NoLogOptions)
    \/ \E i \in Instances : debug(i, Lit("m"), NoLogOptions)
    \/ \E i \in Instances : print(i)
    \/ \E i \in Instances : clear(i)
    \/ clearAll
    \/ \E names \in {Undefined, NameList(Names)} : setStream(names)

SpecHistory == Init /\ [][NextHistory]_vars

\* SpecIsolation: a logger named "a" and a logger named like the key of the
\* stream allow-list, on one store
NextIsolation ==
    \/ Logs({"A", Reserved}, {Lit("m")}, {NoLogOptions})
    \/ \E i \in {"A", Reserved} : print(i)
    \/ \E i \in {"A", Reserved} : clear(i)
    \/ \E names \in {Undefined, NameList({"a", StreamKey})} : setStream(names)

SpecIsolation == Init /\ [][NextIsolation]_vars

\* levels outside the level table that a caller may hand to log
UnknownLevels == {-1, 6}

\* a minimum level above the level table
AboveTable == 9

\* SpecErrors: log(entry) on malformed entries, on levels outside the level
\* table, and with producers that throw
NextErrors ==
    \/ \E e \in {Undefined, NoLevelEntry(Producer("m"))}
                \cup {EntryOf(l, Lit("m"), NoLogOptions) : l \in UnknownLevels} :
          /\ \/ logged < MaxLogs
             \/ ~logOutcome(Memory, loggers["A"], e, gameTime, now).passed
          /\ logCall("A", e)
    \/ Logs({"A"}, {Producer("m"), ThrowingProducer("m")}, {NoLogOptions})
    \/ \E level \in {LOG_LEVELS.WARN, AboveTable} : setLevel("A", level)
    \/ \E names \in {Undefined, OneName("b")} : setStream(names)

SpecErrors == Init /\ [][NextErrors]_vars

\* the levels of the level table
ClassLevels == 0..(Len(LEVEL_NAMES) - 1)

\* SpecLevels: the minimum level of a class Logger, given to the constructor
\* and set afterwards
NextLevels ==
    \/ \E level \in ClassLevels :
          construct("A", [NoOptions EXCEPT !.level = Some(level),
                                           !.limit = Some(ClassLimit)])
    \/ \E level \in ClassLevels : setLevel("A", level)
    \/ getLevel("A")
    \/ Logs({"A"}, {Lit("m")}, {NoLogOptions})

SpecLevels == Init /\ [][NextLevels]_vars

\* SpecRender: entries rendered when emitted and again by printLogs, in the
\* tick of the emit and in later ticks, while the wall clock moves
NextRender ==
    \/ /\ Len(pushed) < MaxRenders
       /\ \/ Logger_warn(Some(LOG_CAT.DEFENSE), Undefined, "WALL_BREACHED",
                         Undefined, {})
          \/ Logger_context(Some(LOG_CAT.DEFENSE), Some("W1N1"),
                            "WALL_BREACHED", Undefined, {})
    \/ \E predicate \in {"none", "warnOrWorse"} : Logger_printLogs(predicate)
    \/ Tick(1)
    \/ Clock

SpecRender == Init /\ [][NextRender]_vars

\* SpecRestart: both histories across restarts of the environment
NextRestart ==
    \/ /\ logged < MaxStores
       /\ \E i \in Instances, message \in {Lit("m"), Lit("n")} :
             info(i, message, NoLogOptions)
    \/ \E i \in Instances : print(i)
    \/ /\ Len(pushed) < MaxRenders
       /\ Logger_warn(Some(LOG_CAT.DEFENSE), Undefined, "WALL_BREACHED",
                      Undefined, {})
    \/ Logger_getLogs("none")
    \/ Restart

SpecRestart == Init /\ [][NextRestart]_vars

\* SpecListing: the histories listed when empty, when holding one entry and
\* when holding more, by both variants of print() and by getLogs
NextListing ==
    \/ /\ logged < MaxStores
       /\ \E i \in Instances, message \in {Lit("m"), Lit("n")} :
             info(i, message, NoLogOptions)
    \/ \E i \in Instances : print(i)
    \/ \E i \in Instances : print_part000(i)
    \/ /\ Len(pushed) < MaxRenders
       /\ Logger_warn(Some(LOG_CAT.DEFENSE), Undefined, "WALL_BREACHED",
                      Undefined, {})
    \/ \E predicate \in Predicates : Logger_getLogs(predicate)

SpecListing == Init /\ [][NextListing]_vars

\* the limits the host constructs an instance with in SpecLimits
Limits == {ClassLimit, ClassLimit + 1}

\* SpecLimits: instances of one name constructed with different limits on
\* one persistent store
NextLimits ==
    \/ \E i \in Instances, limit \in Limits :
          construct(i, [NoOptions EXCEPT !.limit = Some(limit)])
    \/ /\ logged < MaxStores
       /\ \E i \in Instances, message \in {Lit("m"), Lit("n")} :
             info(i, message, NoLogOptions)
    \/ \E i \in Instances : print(i)
    \/ \E i \in Instances : clear(i)

SpecLimits == Init /\ [][NextLimits]_vars

\* SpecStore: the class Logger's decision to store, with the memory and
\* notify options given and left out, under the default store predicate
\* and under a caller's
NextStore ==
    \/ Logs(Instances, {Lit("m")},
            {[NoLogOptions EXCEPT !.memory = m, !.notify = n] :
                m \in {Undefined, Some(TRUE), Some(FALSE)},
                n \in {Undefined, Some(TRUE)}})
    \/ setLevel("A", LOG_LEVELS.TRACE)
    \/ construct("B", [NoOptions EXCEPT !.limit = Some(ClassLimit),
                                        !.level = Some(LOG_LEVELS.TRACE),
                                        !.memoryCallback = Some("storeAll")])

SpecStore == Init /\ [][NextStore]_vars

\* SpecDedup: logError with errors that repeat, on a history that wraps and
\* is cleared
NextDedup ==
    \/ \E err \in Errors \cup {NotAnError} :
          /\ \/ logged < ClassLimit + 2
             \/ /\ err.isError
                /\ Retains([EmptyObj EXCEPT !.logs = Some(StoredLogsOf(
                               loggers[errorLogger].name))],
                           ErrorText(err))
          /\ logError(err, NoLogOptions)
    \/ print(errorLogger)
    \/ clear(errorLogger)

SpecDedup == Init /\ [][NextDedup]_vars

\* SpecCursor: the cursors of both histories under more stores than slots,
\* with entries that pass and are not stored, print and clear
NextCursor ==
    \/ /\ logged < MaxStores
       /\ \E i \in Instances,
             options \in {NoLogOptions,
                          [NoLogOptions EXCEPT !.memory = Some(FALSE)]} :
             info(i, Lit("m"), options)
    \/ \E i \in Instances : print(i)
    \/ \E i \in Instances : clear(i)
    \/ /\ Len(pushed) < MaxPushes
       /\ Logger_error(Some(LOG_CAT.DEFENSE), Undefined, "WALL_BREACHED",
                       Undefined, {})

SpecCursor == Init /\ [][NextCursor]_vars

\* SpecTime: time-formatting calls of both loggers while the tick counter
\* and the wall clock move
NextTime ==
    \/ /\ Len(pushed) < MaxRenders
       /\ Logger_warn(Some(LOG_CAT.DEFENSE), Undefined, "WALL_BREACHED",
                      Undefined, {})
    \/ /\ logged < MaxStores
       /\ info("A", Lit("m"), NoLogOptions)
    \/ Tick(1)
    \/ Clock

SpecTime == Init /\ [][NextTime]_vars

\* SpecClearAll: clearAll() with a stream allow-list that excludes a logger
NextClearAll ==
    \/ Logs(Instances, {Lit("m")}, {NoLogOptions})
    \/ \E names \in {Undefined, OneName("a"), NameList(Names)} :
          setStream(names)
    \/ clearAll
    \/ \E i \in Instances : print(i)

SpecClearAll == Init /\ [][NextClearAll]_vars

----------------------------------------------------------------------------
(* Helpers of the properties *)

Min(a, b) == IF a <= b THEN a ELSE b

\* the last n elements of s
LastN(s, n) == SubSeq(s, Len(s) - n + 1, Len(s))

\* the subsequence of the entries of s that satisfy the predicate
RECURSIVE Keep(_, _)
Keep(s, predicate) ==
    IF s = <<>> THEN <<>>
    ELSE IF predicate = "none" \/ ApplyPredicate(predicate, Head(s))
         THEN <<Head(s)>> \o Keep(Tail(s), predicate)
         ELSE Keep(Tail(s), predicate)

\* the names last carries for the leveled methods of the category Logger
EmitOps == {"Logger.error", "Logger.warn", "Logger.info", "Logger.debug",
            "Logger.trace", "Logger.context"}

\* the step is a call of a leveled method of the category Logger: its
\* level, category and flags are last'[2], last'[3], last'[4]
EmitStep == last'[1] \in EmitOps /\ (last' # last \/ pushed' # pushed)

\* the call of an EmitStep was let through by the filter
Emitted == Len(pushed') = Len(pushed) + 1

\* the call of an EmitStep changed nothing but the record of the call
NoEffect ==
    /\ console' = <<>>
    /\ UNCHANGED <<CFG, logRing, notified, pushed, formattedTimeTick,
                   formattedTime>>

----------------------------------------------------------------------------
(* C1 *)

\* C1: after N pushes getLogs() returns the min(N, C) most recently pushed
\* entries of the ring of capacity C, oldest first, equal entries included;
\* getLogs(predicate) returns those of them that satisfy the predicate, in
\* the same order.
C1_GetLogsNewest ==
    LET kept == LastN(pushed, Min(Len(pushed), logRing.size))
    IN /\ \A predicate \in Predicates :
             getLogs(logRing, predicate) = Keep(kept, predicate)
       /\ last[1] = "Logger.getLogs" => result = Keep(kept, last[2])

\* more pushes than slots, two equal entries retained, and a getLogs call
\* whose predicate kept some of the retained entries and dropped others
C1_Witness ==
    /\ Len(pushed) > logRing.size
    /\ last = <<"Logger.getLogs", "warnOrWorse">>
    /\ Len(result) = 2
    /\ result[1] = result[2]
    /\ pushed[1] # pushed[2]

----------------------------------------------------------------------------
(* C3, C5, C6, C7, C8: the filter and the notification rule of the        *)
(* category Logger                                                         *)

\* the category part of the filter lets the category through
CatAdmitted(cfg, cat) ==
    cfg.enabledCats = Null \/ cat \in cfg.enabledCats[1]

\* the notifier received one more submission, the line just printed
Submitted ==
    /\ Len(notified') = Len(notified) + 1
    /\ SubSeq(notified', 1, Len(notified)) = notified
    /\ Len(console') = 1
    /\ notified'[Len(notified')].text = console'[1]

C3_WarnScenarioStep ==
    EmitStep /\ CFG.level = LOG_LEVEL.WARN =>
        /\ last'[2] = LOG_LEVEL.INFO => NoEffect
        /\ last'[2] = LOG_LEVEL.ERROR /\ CatAdmitted(CFG, last'[3]) =>
              /\ Len(console') = 1
              /\ console'[1].level = "ERROR"
              /\ logRing'.buf[logRing.head] # Undefined
              /\ logRing'.buf[logRing.head][1].l = LOG_LEVEL.ERROR
              /\ \A i \in 0..(logRing.size - 1) :
                    i # logRing.head => logRing'.buf[i] = logRing.buf[i]
              /\ logRing'.head = (logRing.head + 1) % logRing.size
              /\ Submitted

\* C3: with the minimum severity at WARN an emit at INFO leaves the console,
\* the ring's slots and head, and the notifier untouched; an emit at ERROR
\* (of a category the filter admits) prints one line, writes the entry to
\* the slot at head, advances head by one modulo the capacity, and submits
\* the line to the notifier.
C3_WarnScenario == [][C3_WarnScenarioStep]_vars

\* at WARN, an ERROR entry went into the last slot, which took head back to
\* slot 0, and a later INFO call left it all as it was
C3_Witness ==
    /\ CFG.level = LOG_LEVEL.WARN
    /\ last[1] = "Logger.info"
    /\ console = <<>>
    /\ Len(pushed) = logRing.size
    /\ pushed[Len(pushed)].l = LOG_LEVEL.ERROR
    /\ logRing.head = 0
    /\ Len(notified) = Len(pushed)

C5_Drops(cfg, level, cat) ==
    level > cfg.level \/ (cfg.enabledCats # Null /\ cat \notin cfg.enabledCats[1])

C5_State ==
    /\ \A level \in Levels, cat \in CatsOrNone :
          enabled(CFG, level, cat) = ~C5_Drops(CFG, level, cat)
    /\ \A cat \in CatsOrNone : CatAdmitted(CFG, cat) =>
          LET through == {level \in Levels : enabled(CFG, level, cat)}
          IN /\ last = <<"Logger.setLevel", "WARN">> =>
                   through = {LOG_LEVEL.ERROR, LOG_LEVEL.WARN}
             /\ last = <<"Logger.setLevel", "ERROR">> =>
                   through = {LOG_LEVEL.ERROR}
             /\ last = <<"Logger.setLevel", "TRACE">> =>
                   through = {LOG_LEVEL.ERROR, LOG_LEVEL.WARN, LOG_LEVEL.INFO,
                              LOG_LEVEL.DEBUG, LOG_LEVEL.TRACE}

C5_Step ==
    EmitStep =>
        IF C5_Drops(CFG, last'[2], last'[3])
        THEN ~Emitted /\ NoEffect
        ELSE Emitted /\ Len(console') = 1

\* C5: enabled(level, cat) is false exactly when the level is numerically
\* above the minimum level or an allow-set is configured and the category is
\* not in it, and a leveled call is dropped in exactly those cases; so
\* setLevel('WARN') lets only ERROR and WARN through, setLevel('ERROR') only
\* ERROR, and setLevel('TRACE') all five levels.
C5_EnabledExactly == []C5_State /\ [][C5_Step]_vars

\* an ERROR call of a category outside the allow-set was dropped although
\* its level passes
C5_Witness ==
    /\ CFG.level = LOG_LEVEL.WARN
    /\ CFG.enabledCats = Some({Some(LOG_CAT.DEFENSE)})
    /\ last = <<"Logger.error", LOG_LEVEL.ERROR, Some(LOG_CAT.OFFENSE), {}>>
    /\ console = <<>>
    /\ pushed = <<>>

C6_State ==
    CFG.enabledCats # Null =>
        \A level \in Levels, cat \in CatsOrNone :
            /\ cat \notin CFG.enabledCats[1] => ~enabled(CFG, level, cat)
            /\ enabled(CFG, LOG_LEVEL.ERROR, cat) <=> cat \in CFG.enabledCats[1]

C6_Step ==
    /\ EmitStep /\ CFG.enabledCats # Null /\ last'[3] \notin CFG.enabledCats[1]
          => ~Emitted /\ NoEffect
    /\ last'[1] = "Logger.enableCategory" /\ CFG' # CFG =>
          /\ CFG'.enabledCats # Null
          /\ CFG'.enabledCats[1] =
                (IF CFG.enabledCats = Null THEN {} ELSE CFG.enabledCats[1])
                   \cup {last'[2]}
          /\ CFG'.level = CFG.level
    /\ last'[1] = "Logger.clearCategory" /\ last' # last =>
          /\ CFG' = [CFG EXCEPT !.enabledCats = Null]
          /\ \A level \in Levels, cat \in CatsOrNone :
                enabled(CFG', level, cat) <=> level <= CFG.level

\* C6: while an allow-list is configured every entry whose category is not
\* in it, an entry without category included, is dropped at every severity;
\* enableCategory adds its category to the list, so that after enabling X
\* and Y exactly X and Y pass; after clearCategory() the filter decides
\* every (level, category) by the level alone, as it did before any
\* category was enabled.
C6_CategoryAllowList == []C6_State /\ [][C6_Step]_vars

\* both categories were enabled one after the other and an ERROR call
\* without category was dropped
C6_Witness ==
    /\ CFG.enabledCats = Some(Cats)
    /\ last = <<"Logger.error", LOG_LEVEL.ERROR, Undefined, {}>>
    /\ console = <<>>
    /\ pushed = <<>>

\* raising the verbosity only adds passing entries
C7_Monotone ==
    last'[1] = "Logger.setLevel" /\ CFG'.level >= CFG.level =>
        \A level \in Levels, cat \in CatsOrNone :
            enabled(CFG, level, cat) => enabled(CFG', level, cat)

C7_Step ==
    /\ EmitStep /\ last'[2] <= CFG.level /\ CatAdmitted(CFG, last'[3])
          => Emitted
    /\ C7_Monotone

\* C7: an entry whose severity is at or above the configured minimum passes
\* the filter whenever the category allow-list, if one is configured, holds
\* its category; and raising the verbosity never drops an entry that passed
\* before.
C7_FilterMonotone == [][C7_Step]_vars

C7_OriginalStep ==
    /\ EmitStep /\ last'[2] <= CFG.level => Emitted
    /\ C7_Monotone

\* C7 as stated: an entry whose severity is at or above the configured
\* minimum always passes the filter, and raising the verbosity only adds
\* passing entries.
C7_Original == [][C7_OriginalStep]_vars

\* the verbosity was raised from INFO to TRACE and a DEBUG entry of the one
\* enabled category went through
C7_Witness ==
    /\ CFG.level = LOG_LEVEL.TRACE
    /\ CFG.enabledCats = Some({Some(LOG_CAT.DEFENSE)})
    /\ last = <<"Logger.debug", LOG_LEVEL.DEBUG, Some(LOG_CAT.DEFENSE), {}>>
    /\ Len(console) = 1
    /\ Len(pushed) = 1

C8_Step ==
    EmitStep =>
        IF Emitted /\ (last'[2] \in {LOG_LEVEL.ERROR, LOG_LEVEL.WARN}
                       \/ "notify" \in last'[4])
        THEN Submitted
        ELSE notified' = notified

----------------------------------------------------------------------------
(* C2, C4, C9: the gates, the message producer and the notification rule   *)
(* of the class Logger                                                     *)

\* the names last carries for the leveled methods of the class Logger
LogOps == {"fatal", "error", "warn", "info", "debug", "trace"}

\* the step is a call of a leveled method of the class Logger: its instance,
\* level, message and options are last'[2], last'[3], last'[4], last'[5]
LogStep == last'[1] \in LogOps /\ (last' # last \/ logged' # logged)

\* the call of a LogStep went through both gates
Logged == logged' = logged + 1

\* a stream allow-list is set and does not hold the name
NotListed(M, name) ==
    /\ M # Undefined
    /\ M[1][StreamKey] # Undefined
    /\ name \notin M[1][StreamKey][1].names[1]

\* the entries stored under the name
StoredLogs(M, name) ==
    IF M = Undefined \/ M[1][name] = Undefined THEN <<>>
    ELSE logsOf(M[1][name][1])

\* the notifier received one more submission, the text just printed
Notified ==
    /\ Len(notified') = Len(notified) + 1
    /\ SubSeq(notified', 1, Len(notified)) = notified
    /\ Len(console') = 1
    /\ notified'[Len(notified')].text = console'[1]

C2_State ==
    /\ \A name \in Names : \A k \in DOMAIN StoredLogs(Memory, name) :
          ~StoredLogs(Memory, name)[k].message.fn
    /\ last[1] = "print" =>
          /\ invoked = 0
          /\ \A n \in 1..Len(console) : \A k \in 1..Len(console[n]) :
                Len(console[n][k].text.message) = 1

C2_Step ==
    LogStep /\ last'[4].fn =>
        LET L    == loggers[last'[2]]
            text == last'[4].text
            old  == StoredLogs(Memory, L.name)
            new  == StoredLogs(Memory', L.name)
        IN IF NotListed(Memory, L.name) \/ last'[3] > L.level
           THEN invoked' = 0 /\ ~Logged /\ console' = <<>>
           ELSE /\ invoked' = 1
                /\ Logged
                /\ Len(console') = 1
                /\ console'[1].message = <<text>>
                /\ \A k \in DOMAIN new :
                      (k \notin DOMAIN old \/ new[k] # old[k])
                         => new[k].message = Lit(text)
                /\ notified' # notified =>
                      notified'[Len(notified')].text.message = <<text>>

\* C2: a message producer handed to a leveled method of a class Logger is
\* invoked zero times when the stream allow-list or the level filter drops
\* the call and exactly once when the call passes; the message printed,
\* stored and submitted to the notifier is the producer's result, no stored
\* entry holds a producer, and print() invokes nothing and prints the stored
\* text.
C2_ProducerOnce == []C2_State /\ [][C2_Step]_vars

\* a WARN call with a producer passed: one invocation, and its result is in
\* the console line, in the stored entry and in the notification
C2_Witness ==
    /\ last = <<"warn", "A", LOG_LEVELS.WARN, Producer("m"), NoLogOptions>>
    /\ invoked = 1
    /\ Len(console) = 1
    /\ console[1].message = <<"m">>
    /\ StoredLogs(Memory, "a")[0].message = Lit("m")
    /\ Len(notified) = 1
    /\ notified[1].text = console[1]

C4_State ==
    /\ \A n \in Names :
          /\ setStreamTo(Memory, OneName(n)) = setStreamTo(Memory, NameList({n}))
          /\ n \in getStreamTarget(setStreamTo(Memory, OneName(n)))
                      [StreamKey][1].names[1]
          /\ last \in {<<"setStream", OneName(n)>>, <<"setStream", NameList({n})>>}
                => Memory[1][StreamKey] = Some(ArrayOf({n}))
    /\ last = <<"setStream", Undefined>> =>
          /\ Memory[1][StreamKey] = Undefined
          /\ \A i \in Instances : ~NotListed(Memory, loggers[i].name)

C4_Step ==
    LogStep =>
        LET L == loggers[last'[2]]
        IN IF NotListed(Memory, L.name)
           THEN /\ invoked' = 0
                /\ console' = <<>>
                /\ raised' = FALSE
                /\ UNCHANGED <<Memory, notified, logged, clsTimeTick, clsTime>>
           ELSE last'[3] <= L.level => Logged /\ Len(console') = 1

\* C4: a log call of a class Logger whose name is not in the stream
\* allow-list that is set invokes no producer, prints nothing, stores
\* nothing and notifies nothing, whatever its level; with no list set, or
\* the name in it, a call at a passing level emits; setStream with a single
\* name stores the one-element list of that name, and setStream() removes
\* the list, after which no logger is held back by it.
C4_StreamGate == []C4_State /\ [][C4_Step]_vars

\* the list holds "a" alone and a FATAL call of logger "b" with a producer
\* did nothing
C4_Witness ==
    /\ Memory # Undefined
    /\ Memory[1][StreamKey] = Some(ArrayOf({"a"}))
    /\ last = <<"fatal", "B", LOG_LEVELS.FATAL, Producer("m"), NoLogOptions>>
    /\ invoked = 0
    /\ console = <<>>
    /\ notified = <<>>
    /\ logged = 0

\* the explicit notify option decides, in both directions
C9_ExplicitDecides ==
    LogStep /\ Logged /\ last'[5].notify # Undefined =>
        IF last'[5].notify[1] THEN Notified ELSE notified' = notified

C9_Step ==
    /\ C9_ExplicitDecides
    /\ LogStep /\ Logged /\ last'[5].notify = Undefined =>
          LET L == loggers[last'[2]]
          IN IF L.notifyCallback = "defaultNotifyCallback"
             THEN IF last'[3] \in {LOG_LEVELS.FATAL, LOG_LEVELS.ERROR,
                                   LOG_LEVELS.WARN}
                  THEN Notified ELSE notified' = notified
             ELSE IF notifyCallback(L, [level |-> last'[3]])
                  THEN Notified ELSE notified' = notified
    /\ LogStep /\ ~Logged => notified' = notified

\* C9: a passing entry logged without a notify option on a class Logger
\* that was constructed without a notifyCallback option is submitted to the
\* notifier exactly when its level is FATAL, ERROR or WARN; on a Logger
\* constructed with a notifyCallback that callback decides; a notify option
\* decides instead in both directions: true sends at any passing level,
\* false sends nothing even at FATAL.
C9_NotifyRule == [][C9_Step]_vars

C9_OriginalStep ==
    /\ C9_ExplicitDecides
    /\ LogStep /\ Logged /\ last'[5].notify = Undefined =>
          IF last'[3] \in {LOG_LEVELS.FATAL, LOG_LEVELS.ERROR, LOG_LEVELS.WARN}
          THEN Notified ELSE notified' = notified

\* C9 as stated: a passing entry logged without a notify option on any
\* class Logger is submitted exactly when its level is FATAL, ERROR or
\* WARN, and a notify option decides instead in both directions.
C9_Original == [][C9_OriginalStep]_vars

\* a FATAL entry with notify: false went through on the Logger with the
\* default callback and nothing was submitted
C9_Witness ==
    /\ last = <<"fatal", "A", LOG_LEVELS.FATAL, Lit("m"),
                [NoLogOptions EXCEPT !.notify = Some(FALSE)]>>
    /\ Len(console) = 1
    /\ logged = 1
    /\ notified = <<>>

----------------------------------------------------------------------------
(* C10: notifications of events that are close together                    *)

\* what identifies the events a submission belongs to: the logger, the
\* level and the message
NoteKey(note) ==
    IF "msg" \in DOMAIN note.text
    THEN <<"Logger", note.text.cat, note.text.level, note.text.msg>>
    ELSE <<note.text.name, note.text.level, note.text.message>>

\* one more submission, made in this tick with the resend interval asked for
SubmittedWith(interval) ==
    /\ Len(notified') = Len(notified) + 1
    /\ SubSeq(notified', 1, Len(notified)) = notified
    /\ notified'[Len(notified')].text = console'[1]
    /\ notified'[Len(notified')].tick = gameTime
    /\ notified'[Len(notified')].interval = interval

C10_Step ==
    /\ EmitStep /\ Emitted /\ (last'[2] <= LOG_LEVEL.WARN \/ "notify" \in last'[4])
          => SubmittedWith(IF last'[2] = LOG_LEVEL.ERROR \/ "notifyNow" \in last'[4]
                           THEN 0 ELSE NOTIFY_INTERVAL)
    /\ LogStep /\ Logged
          /\ (IF last'[5].notify # Undefined THEN last'[5].notify[1]
              ELSE IF loggers[last'[2]].notifyCallback = "defaultNotifyCallback"
              THEN last'[3] \in {LOG_LEVELS.FATAL, LOG_LEVELS.ERROR,
                                 LOG_LEVELS.WARN}
              ELSE notifyCallback(loggers[last'[2]], [level |-> last'[3]]))
          => SubmittedWith(NOTIFY_INTERVAL)
    /\ gameTime' # gameTime => notified' = notified

----------------------------------------------------------------------------
(* C11: the resend interval of the category Logger *)

\* the notification of an EmitStep, when it made one
NewNote == notified'[Len(notified')]

C11_Step ==
    /\ EmitStep /\ Len(notified') = Len(notified) + 1 =>
          /\ NewNote.interval = 0 <=>
                (last'[2] = LOG_LEVEL.ERROR \/ "notifyNow" \in last'[4])
          /\ NewNote.interval \in {0, NOTIFY_INTERVAL}
          /\ NOTIFY_INTERVAL = 60
    /\ EmitStep /\ Emitted /\ last'[2] = LOG_LEVEL.WARN
          /\ "notifyNow" \notin last'[4]
          => SubmittedWith(NOTIFY_INTERVAL)

----------------------------------------------------------------------------
(* C12, C13, C14: the stored history of the class Logger *)

\* the record stored under the name, Undefined when there is none
RecordOf(M, name) == IF M = Undefined THEN Undefined ELSE M[1][name]

\* the lines of the most recent print()
PrintedLines == IF console = <<>> THEN <<>> ELSE console[1]

\* the number of the last of the first n stores that went to slot k, or 0
LastInto(k, n, limit) ==
    LET js == {j \in 1..n : (j - 1) % limit = k}
    IN IF js = {} THEN 0 ELSE CHOOSE j \in js : \A h \in js : h <= j

C12_Slots ==
    \A i \in Instances :
        LET L    == loggers[i]
            hist == stored[L.name]
            logs == StoredLogs(Memory, L.name)
        IN /\ \A k \in 0..(L.limit - 1) :
                 LET j == LastInto(k, Len(hist), L.limit)
                 IN IF j = 0 THEN k \notin DOMAIN logs
                    ELSE k \in DOMAIN logs /\ logs[k] = hist[j]
           /\ DOMAIN logs \subseteq 0..(L.limit - 1)
           /\ hist # <<>> =>
                 RecordOf(Memory, L.name)[1].index = Some(Len(hist) % L.limit)

C12_Printed ==
    \A i \in Instances : last = <<"print", i>> =>
        LET L    == loggers[i]
            hist == stored[L.name]
            kept == LastN(hist, Min(Len(hist), L.limit))
        IN /\ ~raised
           /\ ~hung
           /\ Len(PrintedLines) = Min(Len(hist), L.limit)
           /\ \A n \in 1..Len(kept) :
                 PrintedLines[n] = [num |-> n, text |-> format(L, kept[n])]

\* C12: for a class Logger with limit L, after N entries have been stored
\* print() outputs min(N, L) lines, one for each of the L most recently
\* stored entries, oldest first, numbered 1, 2, ... in that order; a store
\* into a full history does not raise and replaces the oldest entry, so that
\* slot k always holds the most recent entry stored into it.
C12_PrintNewest == C12_Slots /\ C12_Printed /\ (last[1] \in LogOps => ~raised)

\* more entries than slots were stored under "a" and print() showed the
\* newest ones, two different entries, in the order they were stored
C12_Witness ==
    /\ last = <<"print", "A">>
    /\ Len(stored["a"]) > loggers["A"].limit
    /\ Len(PrintedLines) = loggers["A"].limit
    /\ PrintedLines[1].text.message = <<"m">>
    /\ PrintedLines[2].text.message = <<"n">>
    /\ stored["a"][1].message = Lit("n")

\* the step is a print() call: its instance is last'[2]
PrintStep == last'[1] = "print" /\ gameTime' = gameTime

\* the stored entries and cursors of the loggers other than name, and the
\* stream allow-list, are as they were
OthersKept(name) ==
    \A k \in Keys \ {name} : RecordOf(Memory', k) = RecordOf(Memory, k)

C13_Step ==
    /\ last'[1] = "clear" /\ gameTime' = gameTime =>
          LET name == loggers[last'[2]].name
          IN /\ RecordOf(Memory', name) = Undefined
             /\ OthersKept(name)
             /\ ~raised'
             /\ console' = <<>>
    /\ PrintStep /\ RecordOf(Memory, loggers[last'[2]].name) = Undefined =>
          console' = <<>> /\ ~raised' /\ ~hung'
    /\ LogStep /\ RecordOf(Memory, loggers[last'[2]].name) = Undefined
          /\ stored' # stored =>
          LET name == loggers[last'[2]].name
          IN /\ DOMAIN StoredLogs(Memory', name) = {0}
             /\ StoredLogs(Memory', name)[0].message = last'[4]
             /\ RecordOf(Memory', name)[1].index
                   = Some(1 % loggers[last'[2]].limit)

\* C13: clear() on a logger removes the record that holds the logger's
\* stored entries and cursor and leaves the record of every other logger and
\* the stream allow-list as they were; print() on a logger without record
\* outputs nothing, and the first entry stored on it goes to slot 0.
C13_ClearOne == [][C13_Step]_vars

\* "a" was cleared while "b" keeps its entry and the allow-list is set, and
\* print() on "a" showed nothing
C13_Witness ==
    /\ last = <<"print", "A">>
    /\ console = <<>>
    /\ logged >= 2
    /\ stored["a"] = <<>>
    /\ Len(stored["b"]) = 1
    /\ StoredLogs(Memory, "b") # <<>>
    /\ RecordOf(Memory, StreamKey) = Some(ArrayOf(Names))

C14_Step ==
    /\ last'[1] = "clearAll" /\ gameTime' = gameTime =>
          /\ \A name \in Names :
                /\ RecordOf(Memory', name) = Undefined
                /\ StoredLogs(Memory', name) = <<>>
          /\ ~raised'
    /\ PrintStep /\ StoredLogs(Memory, loggers[last'[2]].name) = <<>>
          /\ RecordOf(Memory, loggers[last'[2]].name) = Undefined
          => console' = <<>> /\ ~raised' /\ ~hung'
                /\ StoredLogs(Memory', loggers[last'[2]].name) = <<>>

\* C14: Logger.clearAll() leaves no logger with a stored entry or a cursor,
\* whatever was logged on whatever logger before; print() on a logger
\* outputs nothing, and stores nothing, as long as no entry is stored on it.
C14_ClearAll == [][C14_Step]_vars

\* entries were stored, clearAll() removed every record
C14_Witness ==
    /\ last = <<"clearAll">>
    /\ logged >= 2
    /\ Memory # Undefined
    /\ \A k \in Keys : Memory[1][k] = Undefined
    /\ \A k \in Keys : stored[k] = <<>>
    /\ Len(notified) = 0

----------------------------------------------------------------------------
(* C15: loggers of different names on one store *)

\* the stream allow-list: what Logger.getStreamTarget() returns
StreamList(M) == RecordOf(M, StreamKey)

C15_Step ==
    (LogStep \/ PrintStep \/ (last'[1] = "clear" /\ gameTime' = gameTime)) =>
        LET name == loggers[last'[2]].name
        IN /\ \A i \in DOMAIN loggers : loggers[i].name # name =>
                 RecordOf(Memory', loggers[i].name)
                    = RecordOf(Memory, loggers[i].name)
           /\ StreamList(Memory') = StreamList(Memory)

\* C15: no log, print or clear call on a logger changes the stored entries
\* or the cursor of a logger with a different name, and none changes the
\* stream allow-list, whatever the logger's name is, the name "_stream"
\* included.
C15_Isolation == [][C15_Step]_vars

----------------------------------------------------------------------------
(* C16, C17, C18: malformed entries, producers that throw, levels outside  *)
(* the level table                                                         *)

\* the step is a log(entry) call of the host: its instance and entry are
\* last'[2] and last'[3]
LogCallStep == last'[1] = "log" /\ gameTime' = gameTime

C16_Step ==
    LogCallStep /\ (last'[3] = Undefined \/ last'[3][1].level = Undefined) =>
        /\ ~raised'
        /\ ~hung'
        /\ console' = <<>>
        /\ invoked' = 0
        /\ \A k \in Keys : RecordOf(Memory', k) = RecordOf(Memory, k)
        /\ UNCHANGED <<notified, stored, logged, loggers>>

\* C16: log() without entry, and log(entry) with an entry that has no
\* level, return without raising; nothing is printed, no record of the store
\* changes (no entry stored, no cursor moved), the notifier is not called
\* and the entry's message producer is not invoked.
C16_MalformedDropped == [][C16_Step]_vars

\* after an entry was stored, a log(entry) call without level, carrying a
\* producer, did nothing
C16_Witness ==
    /\ last = <<"log", "A", NoLevelEntry(Producer("m"))>>
    /\ Len(stored["a"]) = 1
    /\ RecordOf(Memory, "a")[1].index = Some(1)
    /\ invoked = 0
    /\ console = <<>>
    /\ ~raised

\* C17: when the message producer raises during a log call that passes the
\* allow-list and the level filter, the exception does not propagate out of
\* the logging call.
C17_ProducerContained ==
    last[1] \in LogOps /\ last[4].fn /\ last[4].throws => ~raised

\* C18: a log call whose level is not in the level table but passes the
\* level filter is rendered (one console line) and does not raise.
C18_UnknownLevelRendered ==
    (/\ last[1] = "log"
     /\ last[3] # Undefined
     /\ last[3][1].level # Undefined
     /\ last[3][1].level[1] \notin 0..(Len(LEVEL_NAMES) - 1)
     /\ last[3][1].level[1] <= loggers[last[2]].level
     /\ ~NotListed(Memory, loggers[last[2]].name))
    => ~raised /\ Len(console) = 1

----------------------------------------------------------------------------
(* C19: the minimum level of a class Logger *)

C19_Step ==
    /\ last'[1] = "new" /\ gameTime' = gameTime =>
          loggers'[last'[2]].level = last'[3].level[1]
    /\ last'[1] = "setLevel" /\ gameTime' = gameTime =>
          loggers'[last'[2]].level = last'[3]
    /\ last'[1] = "getLevel" /\ gameTime' = gameTime =>
          result' = <<loggers[last'[2]].level>>
    /\ LogStep /\ ~NotListed(Memory, loggers[last'[2]].name) =>
          (Logged <=> last'[3] <= loggers[last'[2]].level)

\* C19: for every level L of the level table, 0 (FATAL) to 5 (TRACE), a
\* Logger constructed with options.level = L has minimum level L, as it has
\* after setLevel(L); getLevel() reports the minimum level, and exactly the
\* entries whose level is at most the minimum level are let through.
C19_LevelKept == [][C19_Step]_vars

----------------------------------------------------------------------------
(* C20: Logger.setLevel('INFO') on the category Logger *)

\* the levels of the entries of the category that the filter lets through
Through(cat) == {level \in Levels : enabled(CFG, level, cat)}

C20_State ==
    last = <<"Logger.setLevel", "INFO">> =>
        \A cat \in CatsOrNone : CatAdmitted(CFG, cat) =>
            Through(cat) = {LOG_LEVEL.ERROR, LOG_LEVEL.WARN, LOG_LEVEL.INFO}

C20_Step ==
    EmitStep /\ CFG.level = LOG_LEVEL["INFO"] /\ CatAdmitted(CFG, last'[3]) =>
        IF last'[2] \in {LOG_LEVEL.ERROR, LOG_LEVEL.WARN, LOG_LEVEL.INFO}
        THEN Emitted /\ Len(console') = 1
        ELSE ~Emitted /\ console' = <<>>

----------------------------------------------------------------------------
(* C21: Logger.context *)

\* the step is a call of Logger.context
ContextStep == EmitStep /\ last'[1] = "Logger.context"

C21_Step ==
    ContextStep =>
        LET cat   == last'[3]
            flags == last'[4]
            drop  == CFG.level < LOG_LEVEL.WARN \/ ~CatAdmitted(CFG, cat)
        IN IF drop
           THEN ~Emitted /\ NoEffect
           ELSE /\ Emitted
                /\ pushed'[Len(pushed')].l = LOG_LEVEL.WARN
                /\ pushed'[Len(pushed')].c = cat
                /\ pushed'[Len(pushed')].f = flags \cup {"context"}
                /\ logRing'.buf[logRing.head] = Some(pushed'[Len(pushed')])
                /\ logRing'.head = (logRing.head + 1) % logRing.size
                /\ \A k \in 0..(logRing.size - 1) :
                      k # logRing.head => logRing'.buf[k] = logRing.buf[k]
                /\ SubmittedWith(IF "notifyNow" \in flags
                                 THEN 0 ELSE NOTIFY_INTERVAL)
                /\ UNCHANGED CFG

\* C21: Logger.context(cat, room, msg, data, flags) is dropped exactly when
\* a WARN entry of the category is dropped (the level is set below WARN or
\* the allow-list does not admit the category); when it passes, one entry at
\* level WARN carrying the given flags and the context flag is pushed to the
\* ring, and its line is submitted to the notifier once, with the resend
\* interval a WARN entry with these flags gets.
C21_ContextIsWarn == [][C21_Step]_vars

\* a context call with notifyNow passed and was submitted at once
C21_Witness ==
    /\ last[1] = "Logger.context"
    /\ Len(pushed) = 1
    /\ pushed[1].f = {"notifyNow", "context"}
    /\ pushed[1].l = LOG_LEVEL.WARN
    /\ Len(notified) = 1
    /\ notified[1].interval = 0
    /\ logRing.head = 1

----------------------------------------------------------------------------
(* C22: render *)

\* the entries the ring holds
RingEntries ==
    {logRing.buf[k][1] : k \in {j \in DOMAIN logRing.buf : logRing.buf[j] # Undefined}}

\* the step is a call of Logger.printLogs
PrintLogsStep ==
    last'[1] = "Logger.printLogs" /\ gameTime' = gameTime /\ now' = now

\* rendering e, then the entries of between, then e again, all in this tick
C22_Twice(e, between) ==
    LET r1 == render(formattedTimeTick, formattedTime, gameTime, e)
        r2 == renderEach(r1.tick, r1.text, gameTime, between, <<>>)
        r3 == render(r2.tick, r2.text, gameTime, e)
    IN r3.line = r1.line

C22_State ==
    \A e \in RingEntries :
        /\ C22_Twice(e, <<>>)
        /\ \A other \in RingEntries : C22_Twice(e, <<other>>)

C22_Step ==
    /\ PrintLogsStep =>
          /\ UNCHANGED <<CFG, logRing, pushed, notified>>
          /\ Len(console') = Len(getLogs(logRing, last'[2]))
    /\ PrintLogsStep /\ last' = last /\ formattedTimeTick = Some(gameTime) =>
          console' = console
    /\ EmitStep /\ Emitted =>
          /\ logRing'.buf[logRing.head] = Some(pushed'[Len(pushed')])
          /\ pushed'[Len(pushed')].t = gameTime
          /\ pushed'[Len(pushed')].ts = now
          /\ UNCHANGED CFG
          /\ \A k \in 0..(logRing.size - 1) :
                k # logRing.head => logRing'.buf[k] = logRing.buf[k]

\* C22: rendering an entry twice in one tick, with or without the rendering
\* of another entry in between, returns the same text; printLogs called
\* again in the same tick prints the same lines; rendering changes neither
\* the entry rendered, nor the ring, nor the filter configuration.
C22_RenderIdempotent == []C22_State /\ [][C22_Step]_vars

\* two entries made in different minutes and ticks were printed twice in a
\* later tick
C22_Witness ==
    /\ last[1] = "Logger.printLogs"
    /\ Len(console) = 2
    /\ Len(pushed) = 2
    /\ pushed[1].ts # pushed[2].ts
    /\ pushed[1].t # pushed[2].t
    /\ gameTime > pushed[2].t
    /\ formattedTimeTick = Some(gameTime)
    /\ console[1].time = console[2].time

----------------------------------------------------------------------------
(* C23: restart of the environment *)

\* the step is a restart
RestartStep == last' = <<"restart">> /\ (last # last' \/ logRing' # logRing)

\* every slot holds the most recent entry stored into it, before or after a
\* restart, and print() lists the kept entries oldest first
C23_State == C12_Slots /\ C12_Printed

C23_Step ==
    RestartStep =>
        /\ \A k \in Keys : RecordOf(Memory', k) = RecordOf(Memory, k)
        /\ Memory' = Memory
        /\ logRing'.head = 0
        /\ \A k \in 0..(logRing'.size - 1) : logRing'.buf[k] = Undefined
        /\ getLogs(logRing', "none") = <<>>

\* C23: a restart of the environment leaves the stored entries and the
\* cursor of every name in the persistent store as they were, so that the
\* stores made after it go on replacing the oldest entry and print() goes on
\* listing the kept entries oldest first; the in-memory ring is empty with
\* head 0 after the restart.
C23_RestartKeepsStore == []C23_State /\ [][C23_Step]_vars

\* a restart with a wrapped history under "a" and a filled ring; the ring
\* is empty afterwards, the history is kept
C23_Witness ==
    /\ last = <<"restart">>
    /\ Len(stored["a"]) = loggers["A"].limit + 1
    /\ RecordOf(Memory, "a")[1].index = Some(1)
    /\ DOMAIN StoredLogs(Memory, "a") = 0..(loggers["A"].limit - 1)
    /\ pushed # <<>>
    /\ logRing = InitialRing

----------------------------------------------------------------------------
(* C24: listing an empty history and a history of one entry *)

\* the step is a call of one of the two variants of print()
AnyPrintStep ==
    last'[1] \in {"print", "print_part000"} /\ gameTime' = gameTime

\* the lines the call of an AnyPrintStep printed or returned
Listed ==
    IF last'[1] = "print"
    THEN (IF console' = <<>> THEN <<>> ELSE console'[1])
    ELSE (IF result' = <<>> THEN <<>> ELSE result'[1])

C24_Step ==
    /\ AnyPrintStep /\ stored[loggers[last'[2]].name] = <<>> =>
          ~hung' /\ ~raised' /\ Listed = <<>>
    /\ AnyPrintStep /\ Len(stored[loggers[last'[2]].name]) = 1 =>
          /\ ~hung' /\ ~raised'
          /\ Len(Listed) = 1
          /\ Listed[1].text = format(loggers[last'[2]],
                                     stored[loggers[last'[2]].name][1])
    /\ last'[1] = "Logger.getLogs" /\ gameTime' = gameTime /\ pushed = <<>> =>
          result' = <<>>
    /\ last'[1] = "Logger.getLogs" /\ gameTime' = gameTime /\ Len(pushed) = 1 =>
          result' = Keep(pushed, last'[2])

\* C24: print(), in the variant of screeps-logger.js and in the variant of
\* src/unnamed/part_000, and getLogs() return; on a history into which
\* nothing was ever stored they list nothing, on a history of one entry
\* they list that entry.
C24_ListingEnds == [][C24_Step]_vars

----------------------------------------------------------------------------
(* C25: print() on a cursor written under another limit *)

C25_Step == PrintStep => ~hung'

\* C25: print() returns in every state of the persistent store that calls
\* of the public API lead to, the states included in which the cursor was
\* written by an instance of the same name constructed with a larger limit.
C25_PrintReturns == [][C25_Step]_vars

----------------------------------------------------------------------------
(* C26: the decision to store *)

\* the entry of the LogStep is to be stored: its memory option says so, or
\* is left out and the store predicate of the instance accepts the level
C26_ToStore ==
    LET options == last'[5]
        L == loggers[last'[2]]
    IN IF options.memory # Undefined THEN options.memory[1]
       ELSE IF L.memoryCallback = "defaultMemoryCallback"
       THEN last'[3] \in {LOG_LEVELS.FATAL, LOG_LEVELS.ERROR, LOG_LEVELS.WARN,
                          LOG_LEVELS.INFO}
       ELSE TRUE

\* the entry of the LogStep is to be notified: its notify option says so, or
\* is left out and the notify predicate of the instance accepts the level
C26_ToNotify ==
    LET options == last'[5]
        L == loggers[last'[2]]
    IN IF options.notify # Undefined THEN options.notify[1]
       ELSE IF L.notifyCallback = "defaultNotifyCallback"
       THEN last'[3] \in {LOG_LEVELS.FATAL, LOG_LEVELS.ERROR, LOG_LEVELS.WARN}
       ELSE last'[3] = LOG_LEVELS.FATAL

C26_Step ==
    LogStep /\ Logged =>
        LET name == loggers[last'[2]].name
            L    == loggers[last'[2]]
            rec  == RecordOf(Memory, name)
            idx  == IF rec = Undefined \/ rec[1].index = Undefined
                    THEN 0 ELSE rec[1].index[1]
        IN /\ Len(console') = 1
           /\ ~raised'
           /\ IF C26_ToStore
              THEN /\ Len(stored'[name]) = Len(stored[name]) + 1
                   /\ RecordOf(Memory', name)[1].index = Some((idx + 1) % L.limit)
                   /\ idx \in DOMAIN StoredLogs(Memory', name)
                   /\ StoredLogs(Memory', name)[idx].level = last'[3]
                   /\ \A k \in DOMAIN StoredLogs(Memory, name) \ {idx} :
                         StoredLogs(Memory', name)[k] = StoredLogs(Memory, name)[k]
              ELSE /\ stored' = stored
                   /\ \A k \in Keys : RecordOf(Memory', k) = RecordOf(Memory, k)
           /\ IF C26_ToNotify THEN Notified ELSE notified' = notified

\* C26: an entry that passes both gates of the class Logger is printed; it
\* is stored exactly when its memory option is true, or is left out while
\* the store predicate accepts it (by default, levels up to INFO); an entry
\* not stored leaves the cursor and every slot as they were; the entry is
\* notified or not as the notify option and the notify predicate say,
\* whether it is stored or not.
C26_StoreRule == [][C26_Step]_vars

\* a WARN entry with memory: false was printed and notified, not stored
C26_Witness ==
    /\ last[1] = "warn"
    /\ last[5].memory = Some(FALSE)
    /\ logged = 1
    /\ Len(console) = 1
    /\ Len(notified) = 1
    /\ \A k \in Keys : stored[k] = <<>>
    /\ \A k \in Keys : RecordOf(Memory, k) = Undefined

----------------------------------------------------------------------------
(* C27: logError and repeated errors *)

\* the step is a call of logError with an Error object
LogErrorStep ==
    last'[1] = "logError" /\ last'[2].isError /\ gameTime' = gameTime

\* the entries stored under the name that no later store has replaced and
\* no clear has removed
Retained(name, limit) ==
    LET hist == stored[name]
        kept == LastN(hist, Min(Len(hist), limit))
    IN {kept[n] : n \in 1..Len(kept)}

\* the error of the LogErrorStep has the text of a retained entry
C27_Repeated ==
    \E e \in Retained(loggers[errorLogger].name, loggers[errorLogger].limit) :
        e.message.text = <<last'[2].message, "\nStack: ", last'[2].stack>>

C27_Step ==
    LogErrorStep =>
        LET name == loggers[errorLogger].name
        IN IF C27_Repeated
           THEN /\ console' = <<>>
                /\ UNCHANGED <<stored, notified, logged>>
                /\ StoredLogs(Memory', name) = StoredLogs(Memory, name)
                /\ RecordOf(Memory', name)[1].index
                      = RecordOf(Memory, name)[1].index
           ELSE /\ Len(console') = 1
                /\ Len(stored'[name]) = Len(stored[name]) + 1
                /\ stored'[name][Len(stored'[name])].message.text
                      = <<last'[2].message, "\nStack: ", last'[2].stack>>
                /\ stored'[name][Len(stored'[name])].level = LOG_LEVELS.ERROR
                /\ Notified

\* C27: logError called with an error whose message-and-stack text equals
\* the message of an entry retained in the error logger's history returns
\* at once: nothing is stored, nothing is printed, the notifier is not
\* called. Once the retained entry was replaced by later stores or removed
\* by clear(), the same error (logged with default options, the logger
\* not excluded by a stream allow-list) is printed, stored and notified
\* again.
C27_RepeatSuppressed == [][C27_Step]_vars

C27_OriginalStep ==
    LogErrorStep /\ C27_Repeated =>
        /\ stored' = stored
        /\ Len(console') = 1

\* C27 as stated: the repeated error stores no second entry but still
\* prints its console line.
C27_Original == [][C27_OriginalStep]_vars

\* an error was stored, replaced by the stores of other errors, stored
\* again, and then suppressed when it came once more
C27_Witness ==
    /\ last[1] = "logError"
    /\ last[2].isError
    /\ console = <<>>
    /\ Len(stored["a"]) = loggers[errorLogger].limit + 2
    /\ stored["a"][1].message = stored["a"][Len(stored["a"])].message
    /\ stored["a"][1].message.text = ErrorText(last[2])

----------------------------------------------------------------------------
(* C28: the cursors stay in range *)

\* the persisted cursor of the name, Undefined when absent
CursorOf(M, name) ==
    IF RecordOf(M, name) = Undefined THEN Undefined
    ELSE RecordOf(M, name)[1].index

C28_State ==
    /\ \A i \in Instances :
          LET L == loggers[i]
          IN /\ CursorOf(Memory, L.name) = Undefined <=> stored[L.name] = <<>>
             /\ CursorOf(Memory, L.name) # Undefined =>
                   CursorOf(Memory, L.name)[1] \in 0..(L.limit - 1)
             /\ \A k \in DOMAIN StoredLogs(Memory, L.name) :
                   k \in 0..(L.limit - 1)
    /\ logRing.head \in 0..(logRing.size - 1)
    /\ \A k \in DOMAIN logRing.buf : k \in 0..(logRing.size - 1)

C28_Step ==
    LogStep /\ stored' # stored =>
        /\ RecordOf(Memory', loggers[last'[2]].name) # Undefined
        /\ CursorOf(Memory', loggers[last'[2]].name) # Undefined

\* C28: for a logger name used with one limit L, whatever log, print and
\* clear calls were made, the persisted cursor is absent exactly when
\* nothing was stored since the creation or the last clear, and is in
\* 0..L-1 otherwise; every stored entry sits in a slot in 0..L-1; after a
\* log call that stored, the record and its cursor exist in the store. The
\* head of the in-memory ring is in 0..size-1.
C28_CursorInRange == []C28_State /\ [][C28_Step]_vars

\* both cursors have wrapped: L stores took the persisted cursor back to 0,
\* size + 1 pushes took the head to 1
C28_Witness ==
    /\ last[1] = "info"
    /\ Len(stored["a"]) = loggers["A"].limit
    /\ CursorOf(Memory, "a") = Some(0)
    /\ Len(pushed) = logRing.size + 1
    /\ logRing.head = 1

----------------------------------------------------------------------------
(* C29: the memo of the formatted time *)

C29_Step ==
    /\ EmitStep /\ Emitted =>
          IF formattedTimeTick = Some(gameTime)
          THEN /\ console'[1].time = formattedTime[1]
               /\ UNCHANGED <<formattedTimeTick, formattedTime>>
          ELSE /\ console'[1].time = FormatDate(now)
               /\ formattedTimeTick' = Some(gameTime)
               /\ formattedTime' = Some(FormatDate(now))
    /\ LogStep /\ Logged =>
          IF clsTimeTick = Some(gameTime)
          THEN /\ console'[1].time = clsTime[1]
               /\ UNCHANGED <<clsTimeTick, clsTime>>
          ELSE /\ console'[1].time = FormatDate(now)
               /\ clsTimeTick' = Some(gameTime)
               /\ clsTime' = Some(FormatDate(now))

\* C29: in both modules of screeps-logger.js the first time-formatting call
\* of a tick computes the text from the timestamp and memoizes it under
\* the tick; every later call in that tick returns the memoized text; a
\* call in another tick computes the text anew.
C29_MemoPerTick == [][C29_Step]_vars

----------------------------------------------------------------------------
(* C30: clearAll() and the stream allow-list *)

C30_Step ==
    last'[1] = "clearAll" /\ gameTime' = gameTime =>
        /\ StreamList(Memory') = StreamList(Memory)
        /\ \A name \in Names :
              NotListed(Memory', name) <=> NotListed(Memory, name)

\* C30: Logger.clearAll() leaves the stream allow-list as it was: a logger
\* the allow-list excluded before the call is excluded after it, a logger
\* it listed is listed after it.
C30_ClearAllKeepsStream == [][C30_Step]_vars

====
